---- MODULE Spec2Model ----
(***************************************************************************)
(* Model of the atlas fetch pipeline (Kabilan108/atlas).                   *)
(*                                                                         *)
(* Part 1: the fail-fast worker pool of package worker (worker.New,        *)
(*         Pool.Submit, Pool.Wait, Pool.fail, Pool.worker) together with   *)
(*         its caller fetchBitbucketPullRequests.                          *)
(* Part 2: the two retrying transports, Client.Do of the current           *)
(*         httpclient package and Client.Do of internal/httpclient.        *)
(***************************************************************************)
EXTENDS Integers, Sequences, FiniteSets, TLC

\* ------------------------------------------------------------------------
\* Bounds of the model
\* ------------------------------------------------------------------------
MaxTasks == 2

MaxConc == 2

\* The cache clock runs from 0 to MaxClock minutes.
MaxClock == 7

\* A diff text has at most MaxLines lines.
MaxLines == 4

\* WriteComments is given at most MaxComments comments.
MaxComments == 3

\* A batch command is given at most MaxInputs inputs.
MaxInputs == 6

\* The repositories of a workspace are served on at most MaxPages pages.
MaxPages == 3

\* At most MaxPRs pull requests exist for a branch.
MaxPRs == 3

\* ------------------------------------------------------------------------
\* Error values.  NoErr is Go's nil error, a task's own error is its index
\* (1..MaxTasks), the others are the sentinel errors below.
\* ------------------------------------------------------------------------
NoErr == 0

ErrCanceled == -1

ErrDeadlineExceeded == -2

ErrNilTask == -3

Max(a, b) == IF a >= b THEN a ELSE b

Tasks == 1..MaxTasks

ConcValues == (0 - 1)..MaxConc

Workers == 1..Max(MaxConc, 1)

Callers == {"fetch", "api"}

VARIABLES
    conc,        \* the concurrency argument of worker.New
    caller,      \* "fetch": fetchBitbucketPullRequests; "api": any user of Submit/Wait
    mpc,         \* position of the calling goroutine
    i,           \* number of inputs taken so far (the current task is i)
    subRes,      \* subRes[t]: what Submit(t) returned
    ret,         \* what the caller (fetch) or Wait (api) returned
    waited,      \* Wait has returned
    closed,      \* p.tasks has been closed
    ctxDone,     \* p.ctx is done
    ctxErr,      \* p.ctx.Err()
    parentErr,   \* p.parent.Err()
    wpc,         \* wpc[w]: position of worker goroutine w
    wtask,       \* wtask[w]: the task worker w holds (0: none)
    tstate,      \* tstate[t]: life-cycle state of task t
    terr,        \* terr[t]: the error the body of t returned
    perr,        \* p.err
    onceDone,    \* p.errOnce has fired
    failSeq,     \* history: tasks in the order their p.fail(err) ran
    enteredDone, \* history: enteredDone[t] iff p.ctx was done when Submit(t), t not nil, was called
    lateStart    \* history: lateStart[w]: bodies worker w entered while p.ctx was done

poolVars == <<conc, caller, mpc, i, subRes, ret, waited, closed, ctxDone,
              ctxErr, parentErr, wpc, wtask, tstate, terr, perr, onceDone,
              failSeq, enteredDone, lateStart>>

VARIABLES
    dimpl,       \* "A": Do of the current httpclient package; "B": Do of internal/httpclient
    reqKind,     \* the request's body: "none", "plain", "unreadable", "closefails", "getbody"
    reqBody,     \* the unread bytes of req.Body
    buf,         \* the bytes req.GetBody hands out
    bodies,      \* history: the unread body bytes each send carried
    dpc,         \* position of the Do call
    attempt,     \* the loop variable attempt
    sends,       \* number of c.httpClient.Do calls made
    inflight,    \* number of c.httpClient.Do calls that have not returned
    delay,       \* A: the variable delay, in ms
    wait,        \* the duration of the current sleep, in ms
    wsrc,        \* where the current sleep comes from: "backoff" or "header"
    timerFired,  \* the timer of the current sleep expired before the select looked at it
    dctxDone,    \* the caller's context is done
    rstatus,     \* status of the last response (0: the send failed)
    rheader,     \* Retry-After header of the last response
    cause,       \* lastErr: "none", "net", "ctx" or "status"
    dresp,       \* the response Do returned (its status; 0: nil)
    derr,        \* the error Do returned: "nil", "ctx", "exhausted", "buffer", "close", "clone"
    dnamed,      \* the number of attempts the returned error names (0: none)
    cancelAt     \* history: sends made when the context was cancelled under a parked sleep (0: never)

bodyVars == <<reqBody, buf, bodies>>

sleepVars == <<wait, wsrc, timerFired>>

retVars == <<dresp, derr, dnamed>>

doVars == <<dimpl, reqKind, dpc, attempt, sends, inflight, delay, dctxDone,
            rstatus, rheader, cause, bodyVars, sleepVars, retVars, cancelAt>>

VARIABLES
    cnow,        \* the clock time.Now() reads, in minutes
    store,       \* store[k]: the file of key k in the cache directory
    lastGet,     \* what the last call made, if a Get, saw and returned
    lastSet,     \* history: lastSet[k]: data and time of the last Set(k) that succeeded
    ppc,         \* ppc[p]: position of caller p inside a cache call
    pentry,      \* pentry[p]: the entry caller p has read (Get) or encoded (Set)
    fresh        \* history: the entry of the last Set that completed with no other write under way

cacheVars == <<cnow, store, lastGet, lastSet, ppc, pentry, fresh>>

\* The Client, the diff parser and the comment writer are kept in the fields
\* of one record, named below as if they were variables of their own.
VARIABLES
    aux

\* The bitbucket Client: its options, and what its last get call did.
client == aux.client

\* The diff text handed to Parse, a sequence of lines.
text == aux.text

\* The parser FormatDiffContext makes, and whether it has parsed.
index == aux.index

\* A second parser made for the same text.
reparsed == aux.reparsed

\* The last GetHunkForLine / FormatContext call and what it returned.
look == aux.look

\* The comments handed to WriteComments, in the order given.
comments == aux.comments

\* What WriteComments kept and wrote.
written == aux.written

\* A batch command and the worker.NewPool pool it runs its inputs on.
batch == aux.batch

\* The pages the repositories endpoint serves and the last ListRepositories call.
repos == aux.repos

\* The pull requests the server lists for a branch and the last
\* FindPullRequestByBranch call.
prs == aux.prs

\* The tasks of a command that print their documents, outMu and the standard
\* output.
printer == aux.printer

restVars == <<aux>>

vars == <<poolVars, doVars, cacheVars, restVars>>

\* defaultTTL, in minutes.
defaultTTL == 5

CacheKeys == {"k1", "k2"}

\* The key the concurrent cache calls share.
SharedKey == "k1"

Procs == {1, 2}

\* Data handed to Set: JSON texts, one of them with insignificant white
\* space, and a text that is not JSON.
Docs == {"[1,2]", "[1, 2]", "[3]", "diff"}

\* A file that is absent, and one that json.Unmarshal rejects.
NoFile == [kind |-> "none", data |-> "nil", expiresAt |-> 0]

Unreadable == [kind |-> "unreadable", data |-> "nil", expiresAt |-> 0]

\* A file that holds the first bytes of an entry, part of its data included.
Partial == [kind |-> "unreadable", data |-> "[1,", expiresAt |-> 0]

Entry(d, exp) == [kind |-> "entry", data |-> d, expiresAt |-> exp]

NoGet == [key |-> "none", found |-> FALSE, data |-> "nil", at |-> 0, seen |-> NoFile]

NoSet == [v |-> "nil", t |-> 0]

\* The result of no call.
NoCall == [key |-> "none", at |-> 0, sent |-> 0, status |-> 0, hit |-> FALSE, ret |-> "nil"]

\* A Client that has made no get call.
NoClient == [noCache |-> FALSE, retry |-> FALSE, last |-> NoCall,
             prev |-> [k \in CacheKeys |-> NoFile], from |-> {}]

\* A nil *DiffHunk.
NoHunk == [Header |-> "none", OldStart |-> 0, OldCount |-> 0, NewStart |-> 0,
           NewCount |-> 0, Lines |-> <<>>, FilePath |-> ""]

NoLook == [path |-> "none", n |-> 0, r |-> 0, hunk |-> NoHunk, range |-> <<0, 0>>,
           out |-> <<>>]

\* A parser that has parsed nothing: done is set by Parse, hunks is p.hunks.
Unparsed == [done |-> FALSE, hunks |-> [f \in {"f1", "f2"} |-> <<>>]]

\* WriteComments has not been called.
NotWritten == [done |-> FALSE, includeResolved |-> FALSE, filtered |-> <<>>, out |-> <<>>]

\* No batch command is running.
NoBatch == [n |-> 0, inputs |-> 0, mpc |-> "none", submitted |-> 0, jobs |-> 0,
            closed |-> FALSE, wk |-> <<>>, results |-> 0, resultsClosed |-> FALSE,
            received |-> 0]

\* No page is served and ListRepositories has not been called.
NoRepos == [pages |-> <<>>, called |-> FALSE, limit |-> 0, requested |-> 0, ret |-> <<>>]

\* No pull request is listed and FindPullRequestByBranch has not been called;
\* selected is the position of the pull request returned, 0 for the not-found
\* error.
NoPRs == [values |-> <<>>, called |-> FALSE, selected |-> 0]

\* No task prints a document.
NoPrinter == [n |-> 0, taken |-> 0, mu |-> 0, pc |-> <<>>, doc |-> <<>>, stdout |-> <<>>]

\* No get call, no diff, no comment, no batch and no listing is modelled.
AuxIdle ==
    [client |-> NoClient, text |-> <<>>, index |-> Unparsed, reparsed |-> Unparsed,
     look |-> NoLook, comments |-> <<>>, written |-> NotWritten, batch |-> NoBatch,
     repos |-> NoRepos, prs |-> NoPRs, printer |-> NoPrinter]

RestIdle == aux = AuxIdle

\* No cache call is modelled next to the pool or a Do call.
CacheIdle ==
    /\ cnow = 0
    /\ store = [k \in CacheKeys |-> NoFile]
    /\ lastGet = NoGet
    /\ lastSet = [k \in CacheKeys |-> NoSet]
    /\ ppc = [p \in Procs |-> "idle"]
    /\ pentry = [p \in Procs |-> NoFile]
    /\ fresh = NoFile

\* ========================================================================
\* Part 1: worker pool (package worker, worker.New)
\* ========================================================================

\* Mutant: New starts one goroutine more than requested.
NumWorkers_extra(n) == IF n < 1 THEN 1 ELSE n + 1

\* Mutant: New forgets to normalise a concurrency below 1.
NumWorkers_raw(n) == n

\* New: "if concurrency < 1 { concurrency = 1 }"; one goroutine per unit.
NumWorkers(n) == IF n < 1 THEN 1 ELSE n

\* Mutant: Submit without its first select.
SubmitFastPath_never(done) == FALSE

\* Submit's first select: the Done case is taken iff p.ctx is already done.
SubmitFastPath(done) == done

\* Mutant: Submit's second select without the Done case.
DoneCaseReady_never(done) == FALSE

\* Submit's second select: "case <-p.ctx.Done()" is ready iff p.ctx is done.
DoneCaseReady(done) == done

\* nextErr of a cancel: the first cancellation fixes ctx.Err(), later ones
\* leave it alone.
CancelErr(done, old, new) == IF done THEN old ELSE new

\* Mutant: fail without the sync.Once: every failure overwrites p.err.
OnceFires_always(done) == TRUE

\* errOnce.Do(func() { p.err = err; p.cancel() }): runs the function once.
OnceFires(done) == ~done

\* Mutant: worker without the p.ctx.Err() check.
WorkerSkips_never(done) == FALSE

\* worker: "if p.ctx.Err() != nil { return }" before the body is called.
WorkerSkips(done) == done

\* Mutant: Wait without p.wg.Wait().
WgZero_always(pcs) == TRUE

\* p.wg.Wait() returns when every started worker has run its wg.Done().
WgZero(pcs) == \A w \in Workers : pcs[w] \in {"none", "done"}

\* Mutant: Wait without the p.parent.Err() check.
WaitResult_noParent(e, pe, ce) ==
    IF e # NoErr THEN e
    ELSE IF ce # NoErr /\ ce # ErrCanceled THEN ce
    ELSE NoErr

\* Wait's result: p.err, else p.parent.Err(), else p.ctx.Err() unless it is
\* context.Canceled, else nil.
WaitResult(e, pe, ce) ==
    IF e # NoErr THEN e
    ELSE IF pe # NoErr THEN pe
    ELSE IF ce # NoErr /\ ce # ErrCanceled THEN ce
    ELSE NoErr

Running == {w \in Workers : wpc[w] = "run"}

Started == {w \in Workers : wpc[w] # "none"}

\* No Do call is modelled next to the pool.
DoIdle ==
    /\ dimpl = "A"
    /\ reqKind = "none"
    /\ reqBody = <<>>
    /\ buf = <<>>
    /\ bodies = <<>>
    /\ dpc = "done"
    /\ attempt = 0
    /\ sends = 0
    /\ inflight = 0
    /\ delay = 0
    /\ wait = 0
    /\ wsrc = "backoff"
    /\ timerFired = FALSE
    /\ dctxDone = FALSE
    /\ rstatus = 0
    /\ rheader = <<"none", 0>>
    /\ cause = "none"
    /\ dresp = 0
    /\ derr = "nil"
    /\ dnamed = 0
    /\ cancelAt = 0

\* Next to the pool none of the components of aux exists: aux is the empty
\* tuple.
InitPool ==
    /\ DoIdle
    /\ CacheIdle
    /\ aux = <<>>
    /\ conc \in ConcValues
    /\ caller \in Callers
    /\ mpc = "new"
    /\ i = 0
    /\ subRes = [t \in Tasks |-> NoErr]
    /\ ret = NoErr
    /\ waited = FALSE
    /\ closed = FALSE
    /\ ctxDone = FALSE
    /\ ctxErr = NoErr
    /\ parentErr = NoErr
    /\ wpc = [w \in Workers |-> "none"]
    /\ wtask = [w \in Workers |-> 0]
    /\ tstate = [t \in Tasks |-> "new"]
    /\ terr = [t \in Tasks |-> NoErr]
    /\ perr = NoErr
    /\ onceDone = FALSE
    /\ failSeq = <<>>
    /\ enteredDone = [t \in Tasks |-> FALSE]
    /\ lateStart = [w \in Workers |-> 0]

\* worker.New(ctx, concurrency): the child context inherits a done parent,
\* then the workers are started.
New ==
    /\ mpc = "new"
    /\ wpc' = [w \in Workers |-> IF w <= NumWorkers(conc) THEN "top" ELSE "none"]
    /\ mpc' = "loop"
    /\ UNCHANGED <<doVars, cacheVars, restVars, conc, caller, i, subRes, ret, waited, closed, ctxDone,
                   ctxErr, parentErr, wtask, tstate, terr, perr, onceDone,
                   failSeq, enteredDone, lateStart>>

\* The parent context is cancelled (or its deadline passes); the child
\* context p.ctx is cancelled with it.
ParentCancel(kind) ==
    /\ parentErr = NoErr
    /\ parentErr' = kind
    /\ ctxErr' = CancelErr(ctxDone, ctxErr, kind)
    /\ ctxDone' = TRUE
    /\ UNCHANGED <<doVars, cacheVars, restVars, conc, caller, mpc, i, subRes, ret, waited, closed, wpc,
                   wtask, tstate, terr, perr, onceDone, failSeq, enteredDone, lateStart>>

\* Submit(t) returns e to its caller.  fetchBitbucketPullRequests returns
\* poolErr at once when it is not nil; any other caller goes on.
SubmitReturns(t, e) ==
    /\ subRes' = [subRes EXCEPT ![t] = e]
    /\ IF caller = "fetch" /\ e # NoErr
       THEN mpc' = "returned" /\ ret' = e
       ELSE mpc' = "loop" /\ ret' = ret

\* Submit is called with a non-nil task and runs its first select.
SubmitCheck ==
    /\ mpc = "loop"
    /\ i < MaxTasks
    /\ i' = i + 1
    /\ enteredDone' = [enteredDone EXCEPT ![i + 1] = ctxDone]
    /\ IF SubmitFastPath(ctxDone)
       THEN /\ SubmitReturns(i + 1, ctxErr)
            /\ tstate' = [tstate EXCEPT ![i + 1] = "rejected"]
       ELSE /\ mpc' = "select"
            /\ tstate' = [tstate EXCEPT ![i + 1] = "submitting"]
            /\ UNCHANGED <<subRes, ret>>
    /\ UNCHANGED <<doVars, cacheVars, restVars, conc, caller, waited, closed, ctxDone, ctxErr, parentErr,
                   wpc, wtask, terr, perr, onceDone, failSeq, lateStart>>

\* Submit(nil): "worker: task is nil".  The closure fetch submits is never nil.
SubmitNil ==
    /\ mpc = "loop"
    /\ caller = "api"
    /\ i < MaxTasks
    /\ i' = i + 1
    /\ tstate' = [tstate EXCEPT ![i + 1] = "rejected"]
    /\ SubmitReturns(i + 1, ErrNilTask)
    /\ UNCHANGED <<doVars, cacheVars, restVars, conc, caller, waited, closed, ctxDone, ctxErr, parentErr,
                   wpc, wtask, terr, perr, onceDone, failSeq, enteredDone, lateStart>>

\* The hand-over of task t on the unbuffered channel to worker w.
HandOver(t, w) ==
    /\ wpc' = [wpc EXCEPT ![w] = "check"]
    /\ wtask' = [wtask EXCEPT ![w] = t]
    /\ tstate' = [tstate EXCEPT ![t] = "accepted"]
    /\ SubmitReturns(t, NoErr)

\* Second select, send case: a worker is waiting in "range p.tasks".
SubmitSelectSend(w) ==
    /\ mpc = "select"
    /\ wpc[w] = "recv"
    /\ HandOver(i, w)
    /\ UNCHANGED <<doVars, cacheVars, restVars, conc, caller, i, waited, closed, ctxDone, ctxErr, parentErr,
                   terr, perr, onceDone, failSeq, enteredDone, lateStart>>

\* Second select, Done case: p.ctx is done when the select is evaluated
\* (chosen at random against the send case when both are ready).
SubmitSelectDone ==
    /\ mpc = "select"
    /\ DoneCaseReady(ctxDone)
    /\ tstate' = [tstate EXCEPT ![i] = "rejected"]
    /\ SubmitReturns(i, ctxErr)
    /\ UNCHANGED <<doVars, cacheVars, restVars, conc, caller, i, waited, closed, ctxDone, ctxErr, parentErr,
                   wpc, wtask, terr, perr, onceDone, failSeq, enteredDone, lateStart>>

\* Second select, no case ready: the goroutine parks on both channels.
SubmitPark ==
    /\ mpc = "select"
    /\ ~ctxDone
    /\ \A w \in Workers : wpc[w] # "recv"
    /\ mpc' = "parked"
    /\ UNCHANGED <<doVars, cacheVars, restVars, conc, caller, i, subRes, ret, waited, closed, ctxDone, ctxErr,
                   parentErr, wpc, wtask, tstate, terr, perr, onceDone, failSeq,
                   enteredDone, lateStart>>

\* A parked Submit is woken by the close of p.ctx.Done(): the first event
\* that makes a case ready resolves a parked select.
SubmitWokenDone ==
    /\ mpc = "parked"
    /\ DoneCaseReady(ctxDone)
    /\ tstate' = [tstate EXCEPT ![i] = "rejected"]
    /\ SubmitReturns(i, ctxErr)
    /\ UNCHANGED <<doVars, cacheVars, restVars, conc, caller, i, waited, closed, ctxDone, ctxErr, parentErr,
                   wpc, wtask, terr, perr, onceDone, failSeq, enteredDone, lateStart>>

\* worker: "for task := range p.tasks" finds a parked sender and takes its
\* task.  A sender already woken by Done is no longer in the send queue.
WorkerRecvFromParked(w) ==
    /\ wpc[w] = "top"
    /\ mpc = "parked"
    /\ ~ctxDone
    /\ HandOver(i, w)
    /\ UNCHANGED <<doVars, cacheVars, restVars, conc, caller, i, waited, closed, ctxDone, ctxErr, parentErr,
                   terr, perr, onceDone, failSeq, enteredDone, lateStart>>

\* worker: the channel is empty and open: the goroutine parks on it.  The
\* receive does not look at p.ctx.
WorkerPark(w) ==
    /\ wpc[w] = "top"
    /\ ~closed
    /\ ~(mpc = "parked" /\ ~ctxDone)
    /\ wpc' = [wpc EXCEPT ![w] = "recv"]
    /\ UNCHANGED <<doVars, cacheVars, restVars, conc, caller, mpc, i, subRes, ret, waited, closed, ctxDone,
                   ctxErr, parentErr, wtask, tstate, terr, perr, onceDone, failSeq,
                   enteredDone, lateStart>>

\* worker: the channel is closed: the range loop ends, defer p.wg.Done().
WorkerExitClosed(w) ==
    /\ wpc[w] \in {"top", "recv"}
    /\ closed
    /\ wpc' = [wpc EXCEPT ![w] = "done"]
    /\ UNCHANGED <<doVars, cacheVars, restVars, conc, caller, mpc, i, subRes, ret, waited, closed, ctxDone,
                   ctxErr, parentErr, wtask, tstate, terr, perr, onceDone, failSeq,
                   enteredDone, lateStart>>

\* worker: "if p.ctx.Err() != nil { return }": the task is skipped and the
\* worker exits; otherwise the worker goes on to call the body.
WorkerCheck(w) ==
    /\ wpc[w] = "check"
    /\ IF WorkerSkips(ctxDone)
       THEN /\ wpc' = [wpc EXCEPT ![w] = "done"]
            /\ tstate' = [tstate EXCEPT ![wtask[w]] = "skipped"]
            /\ wtask' = [wtask EXCEPT ![w] = 0]
       ELSE /\ wpc' = [wpc EXCEPT ![w] = "call"]
            /\ UNCHANGED <<tstate, wtask>>
    /\ UNCHANGED <<doVars, cacheVars, restVars, conc, caller, mpc, i, subRes, ret, waited, closed, ctxDone,
                   ctxErr, parentErr, terr, perr, onceDone, failSeq, enteredDone, lateStart>>

\* worker: "task(p.ctx)" is entered: the body starts executing.
WorkerStart(w) ==
    /\ wpc[w] = "call"
    /\ wpc' = [wpc EXCEPT ![w] = "run"]
    /\ tstate' = [tstate EXCEPT ![wtask[w]] = "running"]
    /\ lateStart' = [lateStart EXCEPT ![w] = @ + (IF ctxDone THEN 1 ELSE 0)]
    /\ UNCHANGED <<doVars, cacheVars, restVars, conc, caller, mpc, i, subRes, ret, waited, closed, ctxDone,
                   ctxErr, parentErr, wtask, terr, perr, onceDone, failSeq, enteredDone>>

\* The errors the body of task t may return: nil, its own error, or (a body
\* that watches its context) the context's error once p.ctx is done.
Outcomes(t) == {NoErr, t} \cup (IF ctxDone THEN {ctxErr} ELSE {})

\* p.fail(err) for err # nil: errOnce.Do(func() { p.err = err; p.cancel() }).
Fail(t, e) ==
    /\ failSeq' = Append(failSeq, t)
    /\ IF OnceFires(onceDone)
       THEN /\ perr' = e
            /\ onceDone' = TRUE
            /\ ctxErr' = CancelErr(ctxDone, ctxErr, ErrCanceled)
            /\ ctxDone' = TRUE
       ELSE UNCHANGED <<perr, onceDone, ctxErr, ctxDone>>

\* worker: the body returns e; "if err != nil { p.fail(err) }"; back to the
\* top of the range loop.
WorkerFinish(w, e) ==
    /\ wpc[w] = "run"
    /\ e \in Outcomes(wtask[w])
    /\ terr' = [terr EXCEPT ![wtask[w]] = e]
    /\ IF e = NoErr
       THEN /\ tstate' = [tstate EXCEPT ![wtask[w]] = "succeeded"]
            /\ UNCHANGED <<failSeq, perr, onceDone, ctxErr, ctxDone>>
       ELSE /\ tstate' = [tstate EXCEPT ![wtask[w]] = "failed"]
            /\ Fail(wtask[w], e)
    /\ wpc' = [wpc EXCEPT ![w] = "top"]
    /\ wtask' = [wtask EXCEPT ![w] = 0]
    /\ UNCHANGED <<doVars, cacheVars, restVars, conc, caller, mpc, i, subRes, ret, waited, closed, parentErr,
                   enteredDone, lateStart>>

\* Wait: close(p.tasks).  The caller has no input left (len(inputs) = i; the
\* length of the input list is any number up to MaxTasks).
WaitClose ==
    /\ mpc = "loop"
    /\ closed' = TRUE
    /\ mpc' = "wg"
    /\ UNCHANGED <<doVars, cacheVars, restVars, conc, caller, i, subRes, ret, waited, ctxDone, ctxErr,
                   parentErr, wpc, wtask, tstate, terr, perr, onceDone, failSeq,
                   enteredDone, lateStart>>

\* Wait: p.wg.Wait() returns when every worker has exited, then p.cancel().
WaitWg ==
    /\ mpc = "wg"
    /\ WgZero(wpc)
    /\ ctxErr' = CancelErr(ctxDone, ctxErr, ErrCanceled)
    /\ ctxDone' = TRUE
    /\ mpc' = "waitret"
    /\ UNCHANGED <<doVars, cacheVars, restVars, conc, caller, i, subRes, ret, waited, closed, parentErr, wpc,
                   wtask, tstate, terr, perr, onceDone, failSeq, enteredDone, lateStart>>

\* Wait: the result is computed and returned (fetch returns it as its own).
WaitReturn ==
    /\ mpc = "waitret"
    /\ ret' = WaitResult(perr, parentErr, ctxErr)
    /\ waited' = TRUE
    /\ mpc' = "returned"
    /\ UNCHANGED <<doVars, cacheVars, restVars, conc, caller, i, subRes, closed, ctxDone, ctxErr, parentErr,
                   wpc, wtask, tstate, terr, perr, onceDone, failSeq, enteredDone, lateStart>>

NextPool ==
    \/ New
    \/ \E kind \in {ErrCanceled, ErrDeadlineExceeded} : ParentCancel(kind)
    \/ SubmitCheck
    \/ SubmitNil
    \/ \E w \in Workers : SubmitSelectSend(w)
    \/ SubmitSelectDone
    \/ SubmitPark
    \/ SubmitWokenDone
    \/ \E w \in Workers : WorkerRecvFromParked(w)
    \/ \E w \in Workers : WorkerPark(w)
    \/ \E w \in Workers : WorkerExitClosed(w)
    \/ \E w \in Workers : WorkerCheck(w)
    \/ \E w \in Workers : WorkerStart(w)
    \/ \E w \in Workers : \E e \in (0 - 2)..MaxTasks : WorkerFinish(w, e)
    \/ WaitClose
    \/ WaitWg
    \/ WaitReturn

SpecPool == InitPool /\ [][NextPool]_vars

TypeOKPool ==
    /\ mpc \in {"new", "loop", "select", "parked", "wg", "waitret", "returned"}
    /\ \A w \in Workers : wpc[w] \in {"none", "top", "recv", "check", "call", "run", "done"}
    /\ \A t \in Tasks : tstate[t] \in {"new", "submitting", "rejected", "accepted",
                                       "running", "succeeded", "failed", "skipped"}
    /\ i \in 0..MaxTasks

\* Steps of the calling goroutine and of worker w, for the fairness of the
\* Go scheduler: a goroutine that can run is eventually run, and a task body
\* eventually returns.
MainStep ==
    \/ New
    \/ SubmitCheck
    \/ SubmitNil
    \/ \E w \in Workers : SubmitSelectSend(w)
    \/ SubmitSelectDone
    \/ SubmitPark
    \/ SubmitWokenDone
    \/ WaitClose
    \/ WaitWg
    \/ WaitReturn

WorkerStep(w) ==
    \/ WorkerRecvFromParked(w)
    \/ WorkerPark(w)
    \/ WorkerExitClosed(w)
    \/ WorkerCheck(w)
    \/ WorkerStart(w)
    \/ \E e \in (0 - 2)..MaxTasks : WorkerFinish(w, e)

FairSpecPool ==
    /\ SpecPool
    /\ WF_vars(MainStep)
    /\ WF_vars(\E w \in Workers : WorkerStep(w))

\* ------------------------------------------------------------------------
\* Claims about the worker pool
\* ------------------------------------------------------------------------

\* C1: the number of task bodies executing at the same time never exceeds
\* max(N, 1), N the concurrency given to worker.New.
C1_BoundedConcurrency == Cardinality(Running) <= Max(conc, 1)

C1_Witness == conc >= 2 /\ Cardinality(Running) = conc

\* C2: the pool records at most one error, the error of the first failure
\* registered by fail; later failures do not overwrite it, the scope is
\* cancelled when it is recorded, and Wait returns exactly that error.
C2_FirstErrorWins ==
    /\ failSeq = <<>> => perr = NoErr
    /\ failSeq # <<>> => perr = terr[failSeq[1]] /\ perr # NoErr /\ ctxDone
    /\ waited /\ perr # NoErr => ret = perr

C2_Witness ==
    /\ Len(failSeq) >= 2
    /\ terr[failSeq[2]] # terr[failSeq[1]]
    /\ waited
    /\ ret = terr[failSeq[1]]

\* C3 as stated: once the shared scope is cancelled no worker begins a task
\* body (every start of a body precedes the cancellation).
C3_NoStartAfterCancel ==
    [][\A w \in Workers : (wpc[w] # "run" /\ wpc'[w] = "run") => ~ctxDone]_vars

\* C3 amended: a worker that checks the scope after the cancellation skips
\* its task and exits for good; a body is only entered after a check that
\* found the scope not cancelled, so after the cancellation each worker
\* enters at most one more body (the one whose check it had already passed).
C3_NoStartAfterCheckedCancel ==
    /\ [](\A w \in Workers : lateStart[w] <= 1)
    /\ [][\A w \in Workers :
            /\ (wpc[w] = "check" /\ ctxDone /\ wpc'[w] # "check")
                  => (wpc'[w] = "done" /\ tstate'[wtask[w]] = "skipped")
            /\ (wpc[w] = "done" => wpc'[w] = "done")
            /\ (wpc[w] # "run" /\ wpc'[w] = "run") => wpc[w] = "call"]_vars

C3_Witness ==
    /\ \E t \in Tasks : tstate[t] = "skipped"
    /\ \E w \in Workers : lateStart[w] = 1

\* C4: if the shared scope is already cancelled when Submit(task) is called,
\* Submit returns the context's cancellation error and the task's body is
\* never executed.
C4_SubmitAfterCancel ==
    \A t \in Tasks : enteredDone[t] =>
        /\ subRes[t] = ctxErr
        /\ ctxErr \in {ErrCanceled, ErrDeadlineExceeded}
        /\ tstate[t] = "rejected"
        /\ \A w \in Workers : wtask[w] # t

C4_Witness ==
    \E t \in Tasks : enteredDone[t] /\ subRes[t] = ErrCanceled /\ perr # NoErr

\* C5: when Wait has returned, every task accepted by Submit is in a
\* terminal state (succeeded, failed or skipped), no body is running and no
\* worker is left to start one.
C5_WaitAfterAllTasks ==
    waited =>
        /\ \A w \in Workers : wpc[w] \in {"none", "done"}
        /\ \A t \in Tasks : tstate[t] \in {"new", "rejected", "succeeded", "failed", "skipped"}
        /\ \A t \in Tasks : (t <= i /\ subRes[t] = NoErr) =>
                                tstate[t] \in {"succeeded", "failed", "skipped"}

C5_Witness ==
    /\ waited
    /\ \E t \in Tasks : tstate[t] \in {"succeeded", "failed"}
    /\ \E t \in Tasks : tstate[t] = "skipped"

\* C6 as stated: when a task submitted by fetchBitbucketPullRequests has
\* failed, fetchBitbucketPullRequests returns that first task error.
C6_FetchReturnsTaskError ==
    (caller = "fetch" /\ mpc = "returned" /\ parentErr = NoErr /\ perr # NoErr)
        => ret = perr

\* C7 as stated: after the shared scope is cancelled, every worker waiting
\* on the empty task channel stops waiting and exits.
C7_ParkedWorkerExits ==
    \A w \in Workers : (ctxDone /\ wpc[w] = "recv") ~> (wpc[w] = "done")

\* C8: a Submit blocked because every worker is busy returns the
\* cancellation error once the parent context is cancelled or a task fails:
\* from then on it can only return that error, and it does return.
C8_BlockedSubmitUnblocks ==
    /\ [][(mpc = "parked" /\ ctxDone /\ mpc' # "parked")
            => (subRes'[i] = ctxErr /\ tstate'[i] = "rejected")]_vars
    /\ (mpc = "parked" /\ ctxDone) ~> (mpc # "parked")

C8_Witness ==
    /\ mpc = "parked"
    /\ ctxDone
    /\ perr # NoErr
    /\ \A w \in Started : wpc[w] \in {"run", "top"}

\* C9: worker.New(ctx, n) starts exactly max(n, 1) worker routines.
C9_WorkerCount == mpc # "new" => Cardinality(Started) = Max(conc, 1)

C9_Witness == mpc # "new" /\ conc < 1 /\ Cardinality(Started) = 1

\* ========================================================================
\* Part 2: the retrying transports.  Durations are in milliseconds.
\*   A: Client.Do of the current httpclient package
\*   B: Client.Do of internal/httpclient/client.go
\* ========================================================================

maxRetries == 5

baseBackoff == 500

backoffFactor == 2

MaxRetries == 5

InitialBackoff == 500

BackoffMultiplier == 2

MaxBackoff == 30000

Impls == {"A", "B"}

ReqKinds == {"none", "plain", "unreadable", "closefails", "getbody"}

\* The bytes of a request body.
OrigBody == <<1, 2>>

\* Retry-After headers: absent, a number of seconds, an HTTP date that lies
\* the given number of ms ahead (or behind) of now, unparsable text, or
\* ("hugesecs") a number of seconds that strconv.Atoi accepts and whose
\* product with time.Second leaves int64, such as 10000000000.
Headers == {<<"none", 0>>, <<"secs", 2>>, <<"secs", 0>>, <<"date", 3000>>,
            <<"date", 0 - 1000>>, <<"junk", 0>>, <<"hugesecs", 0>>}

\* time.Duration(seconds) * time.Second for a "hugesecs" header: the int64
\* product wraps around; for 10000000000 s it is -8446744073709551616 ns.
\* Every negative duration takes the same branches of the code
\* ("delay <= 0", "retryAfter > 0"), so -1 ms stands for it.
WrappedDuration == 0 - 1

\* What one c.httpClient.Do call can produce.
Responses ==
    {<<"resp", st, <<"none", 0>>>> : st \in {200, 404}}
        \cup {<<"resp", st, <<"none", 0>>>> : st \in {511, 599}}
        \cup {<<"resp", st, h>> : st \in {429, 500}, h \in Headers}

SendErrors == {<<"net", 0, <<"none", 0>>>>, <<"ctx", 0, <<"none", 0>>>>}

\* Draws of the random source over [0, n): the least and the greatest value.
JitterPicks == {"least", "greatest"}

Pick(n, p) == IF p = "least" THEN 0 ELSE n - 1

RECURSIVE Pow(_, _)
Pow(b, e) == IF e = 0 THEN 1 ELSE b * Pow(b, e - 1)

\* Mutant: every status from 500 up is retried.
shouldRetry_wide(status) == status = 429 \/ status >= 500

\* A: shouldRetry(status).
shouldRetry(status) == status = 429 \/ (status >= 500 /\ status <= 511)

\* A: nextBackoff(previous).
nextBackoff(previous) ==
    IF previous * backoffFactor <= 0 THEN previous ELSE previous * backoffFactor

\* Mutant: the jitter is drawn below the whole delay.
addJitter_full(d, p) ==
    IF d <= 0 THEN d
    ELSE d + Pick(d, p)

\* A: addJitter(delay) with the draw p of jitterSource.Int63n(maxJitter).
addJitter(d, p) ==
    IF d <= 0 THEN d
    ELSE d + Pick(IF d \div 2 <= 0 THEN 1 ELSE d \div 2, p)

\* A: retryAfterDelay(resp, fallback): the header as seconds, else as an HTTP
\* date, else the fallback; jitter is added in each case.
retryAfterDelay(h, fallback, p) ==
    IF h[1] = "secs" /\ h[2] > 0 THEN addJitter(h[2] * 1000, p)
    ELSE IF h[1] = "hugesecs" THEN addJitter(WrappedDuration, p)
    ELSE IF h[1] = "date" /\ h[2] > 0 THEN addJitter(h[2], p)
    ELSE addJitter(fallback, p)

\* A: does the wait of retryAfterDelay come from the header?
FromHeader(h) ==
    \/ h[1] = "secs" /\ h[2] > 0
    \/ h[1] = "hugesecs"
    \/ h[1] = "date" /\ h[2] > 0

\* A: the loop condition "attempt <= maxRetries".
LoopContinuesA(a) == a <= maxRetries

\* Mutant: B's loop runs one iteration too many.
LoopContinuesB_more(a) == a <= MaxRetries + 1

\* B: the loop condition "attempt <= MaxRetries".
LoopContinuesB(a) == a <= MaxRetries

\* Mutant: the error names the number of retries.
ExhaustedCount_retries == maxRetries

\* A: the number of attempts in "request failed after %d attempts".
ExhaustedCount == maxRetries + 1

\* Mutant: the clone keeps the Body it shares with req.
CloneBodySource_shared == "shared"

\* A: cloneRequestWithContext gives the clone the reader of req.GetBody().
CloneBodySource == "fresh"

\* Mutant: the sleep does not look at the context.
SleepSeesCtx_never(done) == FALSE

\* The "case <-ctx.Done()" of the select a sleep waits in.
SleepSeesCtx(done) == done

\* B: c.shouldRetry(statusCode).
shouldRetryB(status) == status = 429 \/ status >= 500

\* B: c.getRetryAfter(resp).
getRetryAfter(h) ==
    IF h[1] = "secs" THEN h[2] * 1000
    ELSE IF h[1] = "hugesecs" THEN WrappedDuration
    ELSE IF h[1] = "date" THEN h[2]
    ELSE 0

\* B: c.calculateBackoff(attempt) with the draws p of rand.Float64() and
\* plus of rand.Intn(2) = 0.
calculateBackoff(a, p, plus) ==
    LET backoff == InitialBackoff * Pow(BackoffMultiplier, a)
        jitter == Pick(backoff \div 2, p)
        b == IF plus THEN backoff + jitter ELSE backoff - jitter
    IN  IF b > MaxBackoff THEN MaxBackoff ELSE b

\* No pool is modelled next to a Do call.
PoolIdle ==
    /\ conc = 1
    /\ caller = "api"
    /\ mpc = "returned"
    /\ i = 0
    /\ subRes = [t \in Tasks |-> NoErr]
    /\ ret = NoErr
    /\ waited = FALSE
    /\ closed = FALSE
    /\ ctxDone = FALSE
    /\ ctxErr = NoErr
    /\ parentErr = NoErr
    /\ wpc = [w \in Workers |-> "none"]
    /\ wtask = [w \in Workers |-> 0]
    /\ tstate = [t \in Tasks |-> "new"]
    /\ terr = [t \in Tasks |-> NoErr]
    /\ perr = NoErr
    /\ onceDone = FALSE
    /\ failSeq = <<>>
    /\ enteredDone = [t \in Tasks |-> FALSE]
    /\ lateStart = [w \in Workers |-> 0]

InitDo ==
    /\ PoolIdle
    /\ CacheIdle
    /\ RestIdle
    /\ dimpl \in Impls
    /\ reqKind \in ReqKinds
    /\ dimpl = "B" => reqKind = "none"
    /\ reqBody = (IF reqKind = "none" THEN <<>> ELSE OrigBody)
    /\ buf = (IF reqKind = "getbody" THEN OrigBody ELSE <<>>)
    /\ bodies = <<>>
    /\ dpc = "begin"
    /\ attempt = 0
    /\ sends = 0
    /\ inflight = 0
    /\ delay = 0
    /\ wait = 0
    /\ wsrc = "backoff"
    /\ timerFired = FALSE
    /\ dctxDone = FALSE
    /\ rstatus = 0
    /\ rheader = <<"none", 0>>
    /\ cause = "none"
    /\ dresp = 0
    /\ derr = "nil"
    /\ dnamed = 0
    /\ cancelAt = 0

\* Do returns response r (0: nil) and error e.
DoReturns(r, e) ==
    /\ dpc' = "done"
    /\ dresp' = r
    /\ derr' = e
    /\ dnamed' = (IF dimpl = "A" /\ e = "exhausted" THEN ExhaustedCount ELSE 0)

\* The caller's context is cancelled while Do runs.
DoCtxCancel ==
    /\ dpc # "done"
    /\ ~dctxDone
    /\ dctxDone' = TRUE
    /\ cancelAt' = (IF dpc = "asleep" THEN sends ELSE cancelAt)
    /\ UNCHANGED <<poolVars, cacheVars, restVars, dimpl, reqKind, dpc, attempt, sends, inflight, delay,
                   rstatus, rheader, cause, bodyVars, sleepVars, retVars>>

\* Do up to its loop.  A: ensureGetBody(req), "delay := baseBackoff".  A body
\* without GetBody is read into buf and req.GetBody hands out readers over
\* buf; a failing read or Close is an error.  B: only headers are set.
DoBegin ==
    /\ dpc = "begin"
    /\ IF dimpl = "A" /\ reqKind = "unreadable"
       THEN DoReturns(0, "buffer") /\ UNCHANGED <<delay, reqBody, buf>>
       ELSE IF dimpl = "A" /\ reqKind = "closefails"
       THEN DoReturns(0, "close") /\ reqBody' = <<>> /\ UNCHANGED <<delay, buf>>
       ELSE /\ dpc' = "top"
            /\ delay' = (IF dimpl = "A" THEN baseBackoff ELSE delay)
            /\ buf' = (IF dimpl = "A" /\ reqKind = "plain" THEN reqBody ELSE buf)
            /\ UNCHANGED <<reqBody, retVars>>
    /\ UNCHANGED <<poolVars, cacheVars, restVars, cancelAt, dimpl, reqKind, attempt, sends, inflight, dctxDone,
                   rstatus, rheader, cause, bodies, sleepVars>>

\* A: cloneRequestWithContext fails: a GetBody supplied by the caller
\* returns an error.
DoCloneFail ==
    /\ dpc = "top"
    /\ dimpl = "A"
    /\ reqKind = "getbody"
    /\ LoopContinuesA(attempt)
    /\ DoReturns(0, "clone")
    /\ UNCHANGED <<poolVars, cacheVars, restVars, cancelAt, dimpl, reqKind, attempt, sends, inflight, delay, dctxDone,
                   rstatus, rheader, cause, bodyVars, sleepVars>>

\* The loop body is entered and c.httpClient.Do is called; the transport
\* reads the body it is given to the end.  A sends a clone of req, B sends
\* req itself.
DoSend ==
    /\ dpc = "top"
    /\ IF dimpl = "A" THEN LoopContinuesA(attempt) ELSE LoopContinuesB(attempt)
    /\ sends' = sends + 1
    /\ inflight' = inflight + 1
    /\ dpc' = "inflight"
    /\ IF dimpl = "A" /\ reqKind # "none" /\ CloneBodySource = "fresh"
       THEN bodies' = Append(bodies, buf) /\ reqBody' = reqBody
       ELSE bodies' = Append(bodies, reqBody) /\ reqBody' = <<>>
    /\ UNCHANGED <<poolVars, cacheVars, restVars, cancelAt, dimpl, reqKind, attempt, delay, dctxDone,
                   rstatus, rheader, cause, buf, sleepVars, retVars>>

\* The loop condition fails.  A: the exhaustion error after the loop.
\* B: "return resp, err" with the last response and a nil error.
DoLoopEnd ==
    /\ dpc = "top"
    /\ IF dimpl = "A" THEN ~LoopContinuesA(attempt) ELSE ~LoopContinuesB(attempt)
    /\ IF dimpl = "A" THEN DoReturns(0, "exhausted") ELSE DoReturns(rstatus, "nil")
    /\ UNCHANGED <<poolVars, cacheVars, restVars, cancelAt, dimpl, reqKind, attempt, sends, inflight, delay, dctxDone,
                   rstatus, rheader, cause, bodyVars, sleepVars>>

\* Do goes to sleep for w ms: the timer is created, the select not yet run.
Sleeps(w, src) ==
    /\ dpc' = "sleep"
    /\ wait' = w
    /\ wsrc' = src
    /\ timerFired' = FALSE
    /\ UNCHANGED retVars

\* A: the rest of the loop body once the send returned o, up to the sleep.
RecvA(o, p) ==
    IF o[1] = "resp" /\ ~shouldRetry(o[2])
    THEN DoReturns(o[2], "nil") /\ UNCHANGED <<sleepVars, cause>>
    ELSE /\ cause' = (IF o[1] = "resp" THEN "status" ELSE o[1])
         /\ IF attempt = maxRetries
            THEN DoReturns(0, "exhausted") /\ UNCHANGED sleepVars
            ELSE IF o[1] = "resp"
                 THEN Sleeps(retryAfterDelay(o[3], delay, p),
                             IF FromHeader(o[3]) THEN "header" ELSE "backoff")
                 ELSE Sleeps(addJitter(delay, p), "backoff")

\* B: the rest of the loop body once the send returned o, up to the sleep.
RecvB(o, p, plus) ==
    IF o[1] # "resp"
    THEN /\ cause' = o[1]
         /\ IF attempt = MaxRetries
            THEN DoReturns(0, "exhausted") /\ UNCHANGED sleepVars
            ELSE Sleeps(calculateBackoff(attempt, p, plus), "backoff")
    ELSE /\ cause' = "none"
         /\ IF ~shouldRetryB(o[2])
            THEN DoReturns(o[2], "nil") /\ UNCHANGED sleepVars
            ELSE IF o[2] = 429 /\ getRetryAfter(o[3]) > 0
            THEN Sleeps(getRetryAfter(o[3]), "header")
            ELSE IF o[2] >= 500 /\ attempt # MaxRetries
            THEN Sleeps(calculateBackoff(attempt, p, plus), "backoff")
            ELSE DoReturns(o[2], "nil") /\ UNCHANGED sleepVars

\* c.httpClient.Do returns o; a context error needs a done context.
DoRecv(o, p, plus) ==
    /\ dpc = "inflight"
    /\ o[1] = "ctx" => dctxDone
    /\ dimpl = "A" => plus
    /\ inflight' = inflight - 1
    /\ rstatus' = o[2]
    /\ rheader' = o[3]
    /\ IF dimpl = "A" THEN RecvA(o, p) ELSE RecvB(o, p, plus)
    /\ UNCHANGED <<poolVars, cacheVars, restVars, cancelAt, dimpl, reqKind, attempt, sends, delay, dctxDone, bodyVars>>

\* The timer of a sleep expires before the goroutine has run the select.
DoTimerFire ==
    /\ dpc = "sleep"
    /\ wait > 0
    /\ ~timerFired
    /\ timerFired' = TRUE
    /\ UNCHANGED <<poolVars, cacheVars, restVars, cancelAt, dimpl, reqKind, dpc, attempt, sends, inflight, delay,
                   dctxDone, rstatus, rheader, cause, bodyVars, wait, wsrc, retVars>>

\* The select finds no case ready and the goroutine parks in it.
DoPark ==
    /\ dpc = "sleep"
    /\ wait > 0
    /\ ~timerFired
    /\ ~SleepSeesCtx(dctxDone)
    /\ dpc' = "asleep"
    /\ UNCHANGED <<poolVars, cacheVars, restVars, cancelAt, dimpl, reqKind, attempt, sends, inflight, delay,
                   dctxDone, rstatus, rheader, cause, bodyVars, sleepVars, retVars>>

\* The sleep ends without the context: a sleep of no length finds the
\* context not done (A: the default case), the select finds the timer
\* expired, or the parked goroutine is woken by the timer.  A: sleepWithContext
\* returns nil, then "delay = nextBackoff(wait)"; attempt++.
DoWake ==
    /\ \/ dpc = "sleep" /\ wait <= 0 /\ ~SleepSeesCtx(dctxDone)
       \/ dpc = "sleep" /\ wait > 0 /\ timerFired
       \/ dpc = "asleep" /\ ~SleepSeesCtx(dctxDone)
    /\ attempt' = attempt + 1
    /\ delay' = (IF dimpl = "A" THEN nextBackoff(wait) ELSE delay)
    /\ dpc' = "top"
    /\ UNCHANGED <<poolVars, cacheVars, restVars, cancelAt, dimpl, reqKind, sends, inflight, dctxDone,
                   rstatus, rheader, cause, bodyVars, sleepVars, retVars>>

\* The sleep ends with the context: the select (or the check of a sleep of
\* no length) finds the context done, or the parked goroutine is woken by
\* the close of ctx.Done().  Do returns ctx.Err().
DoSleepCancel ==
    /\ dpc \in {"sleep", "asleep"}
    /\ SleepSeesCtx(dctxDone)
    /\ DoReturns(0, "ctx")
    /\ UNCHANGED <<poolVars, cacheVars, restVars, cancelAt, dimpl, reqKind, attempt, sends, inflight, delay, dctxDone,
                   rstatus, rheader, cause, bodyVars, sleepVars>>

NextDo ==
    \/ DoCtxCancel
    \/ DoBegin
    \/ DoCloneFail
    \/ DoSend
    \/ DoLoopEnd
    \/ \E o \in Responses \cup SendErrors : \E p \in JitterPicks : \E plus \in BOOLEAN :
          DoRecv(o, p, plus)
    \/ DoTimerFire
    \/ DoPark
    \/ DoWake
    \/ DoSleepCancel

SpecDo == InitDo /\ [][NextDo]_vars

\* ------------------------------------------------------------------------
\* Claims about the retrying transports
\* ------------------------------------------------------------------------

\* C10: a single call to Do makes at most maxRetries + 1 = 6 send attempts,
\* one after another (never two sends in flight), in both implementations.
C10_AtMostSixSends ==
    /\ sends <= 6
    /\ sends <= attempt + 1
    /\ inflight <= 1
    /\ inflight = (IF dpc = "inflight" THEN 1 ELSE 0)

C10_Witness ==
    /\ dimpl = "B"
    /\ dpc = "done"
    /\ sends = 6
    /\ rstatus = 429
    /\ attempt = 6

\* C11: when the first response of Do (A) has a status that is neither 429
\* nor in 500..511, Do has sent exactly one attempt and returns that response
\* with a nil error.
C11_NonRetryableReturnedAtOnce ==
    (/\ dimpl = "A"
     /\ attempt = 0
     /\ dpc \in {"sleep", "asleep", "done"}
     /\ rstatus # 0
     /\ rstatus # 429
     /\ ~(rstatus >= 500 /\ rstatus <= 511))
        => (dpc = "done" /\ sends = 1 /\ dresp = rstatus /\ derr = "nil")

C11_Witness ==
    /\ dimpl = "A"
    /\ dpc = "done"
    /\ sends = 1
    /\ dresp = 404
    /\ derr = "nil"

\* C12: in both implementations a 429 response without a Retry-After header
\* is not handed back to the caller while attempts remain: Do sleeps a
\* backoff delay and sends again (or ends with an error, never with the 429).
C12_429WithoutHeaderRetried ==
    (/\ dpc = "done"
     /\ rstatus = 429
     /\ rheader[1] = "none"
     /\ attempt < MaxRetries)
        => dresp = 0

\* C13: when all 6 attempts of Do (A) end in a retryable outcome (a send
\* error, 429 or a status in 500..511), Do returns no response and the
\* exhaustion error, which names 6 attempts and wraps the cause of the last
\* attempt.
C13_ExhaustionError ==
    (/\ dimpl = "A"
     /\ dpc = "done"
     /\ sends = 6
     /\ (rstatus = 0 \/ rstatus = 429 \/ (rstatus >= 500 /\ rstatus <= 511)))
        => /\ dresp = 0
           /\ derr = "exhausted"
           /\ dnamed = 6
           /\ dnamed = sends
           /\ rstatus # 0 => cause = "status"
           /\ rstatus = 0 => cause \in {"net", "ctx"}

C13_Witness ==
    /\ dimpl = "A"
    /\ dpc = "done"
    /\ sends = 6
    /\ rstatus = 511
    /\ derr = "exhausted"
    /\ cause = "status"

\* C14: when the caller's context is cancelled while Do sleeps between two
\* attempts (parked in the select of the sleep), Do sends no further
\* attempt and the sleep ends with the context, not with the timer: Do is
\* still parked or has returned no response and the context's error.
C14_CancelledSleepReturns ==
    cancelAt > 0
        => /\ dpc \in {"asleep", "done"}
           /\ sends = cancelAt
           /\ dpc = "done" => (derr = "ctx" /\ dresp = 0)

C14_Witness ==
    /\ cancelAt = 2
    /\ dpc = "done"
    /\ derr = "ctx"
    /\ sends = 2

C16_BodyReplayed ==
    dimpl = "A"
        => /\ Len(bodies) = sends
           /\ reqKind \in {"plain", "getbody"}
                 => \A k \in 1..Len(bodies) : bodies[k] = OrigBody
           /\ reqKind \in {"unreadable", "closefails"}
                 => /\ sends = 0
                    /\ dpc = "done" => (dresp = 0 /\ derr \in {"buffer", "close"})
           /\ derr = "clone" => (dresp = 0 /\ sends = attempt)

C16_Witness ==
    /\ dimpl = "A"
    /\ reqKind = "plain"
    /\ sends = 3
    /\ bodies = <<OrigBody, OrigBody, OrigBody>>
    /\ reqBody = OrigBody

\* C17: every wait between attempts that comes from the backoff policy (not
\* from a Retry-After header) lies in [0, cap], cap = 30 s, at every attempt
\* and for every jitter draw, in both implementations.
C17_BackoffWaitWithinCap ==
    (dpc \in {"sleep", "asleep"} /\ wsrc = "backoff")
        => (wait >= 0 /\ wait <= MaxBackoff)

\* ========================================================================
\* Part 3: the response cache (Cache of package bitbucket), a directory with
\* one file per key.  Times are in minutes.
\* ========================================================================

\* json.Marshal of the entry compacts the json.RawMessage it embeds.
Compact(d) == IF d = "[1, 2]" THEN "[1,2]" ELSE d

\* json.Marshal of the entry fails for data that is not JSON.
ValidJSON(d) == d # "diff"

\* Mutant: whatever the file holds is taken as an entry.
Decodes_lax(f) == f.kind # "none"

\* Get: os.ReadFile and json.Unmarshal both succeed.
Decodes(f) == f.kind = "entry"

\* Mutant: an entry never counts as expired.
Expired_never(t, exp) == FALSE

\* Get: time.Now().After(entry.ExpiresAt).
Expired(t, exp) == t > exp

\* Mutant: the entry expires when it is written.
ExpiresAt_now(t) == t

\* Set: ExpiresAt = now.Add(c.ttl).
ExpiresAt(t) == t + defaultTTL

InitCache ==
    /\ PoolIdle
    /\ DoIdle
    /\ CacheIdle
    /\ RestIdle

\* The clock advances.
Tick ==
    /\ cnow < MaxClock
    /\ cnow' = cnow + 1
    /\ UNCHANGED <<poolVars, doVars, restVars, store, lastGet, lastSet, ppc, pentry, fresh>>

\* Cache.Get(k): a missing or unreadable file is a miss, an expired entry
\* is removed and a miss, any other entry is returned.
Get(k) ==
    LET f == store[k]
        hit == Decodes(f) /\ ~Expired(cnow, f.expiresAt)
    IN  /\ store' = IF Decodes(f) /\ Expired(cnow, f.expiresAt)
                    THEN [store EXCEPT ![k] = NoFile]
                    ELSE store
        /\ lastGet' = [key |-> k, found |-> hit,
                       data |-> IF hit THEN f.data ELSE "nil",
                       at |-> cnow, seen |-> f]
        /\ UNCHANGED <<poolVars, doVars, restVars, cnow, lastSet, ppc, pentry, fresh>>

\* Cache.Set(k, d): data that is not JSON fails in json.Marshal and nothing
\* is written; else the file of k holds the encoded entry.
Set(k, d) ==
    /\ IF ValidJSON(d)
       THEN /\ store' = [store EXCEPT ![k] = Entry(Compact(d), ExpiresAt(cnow))]
            /\ lastSet' = [lastSet EXCEPT ![k] = [v |-> d, t |-> cnow]]
       ELSE UNCHANGED <<store, lastSet>>
    /\ lastGet' = NoGet
    /\ UNCHANGED <<poolVars, doVars, restVars, cnow, ppc, pentry, fresh>>

\* Cache.Delete(k).
Delete(k) ==
    /\ store' = [store EXCEPT ![k] = NoFile]
    /\ lastSet' = [lastSet EXCEPT ![k] = NoSet]
    /\ lastGet' = NoGet
    /\ UNCHANGED <<poolVars, doVars, restVars, cnow, ppc, pentry, fresh>>

\* Cache.Clear(): every file of the directory is removed.
Clear ==
    /\ store' = [k \in CacheKeys |-> NoFile]
    /\ lastSet' = [k \in CacheKeys |-> NoSet]
    /\ lastGet' = NoGet
    /\ UNCHANGED <<poolVars, doVars, restVars, cnow, ppc, pentry, fresh>>

\* The file of k is left cut short (a writer died inside os.WriteFile) or is
\* damaged from outside.
Damage(k, f) ==
    /\ store' = [store EXCEPT ![k] = f]
    /\ lastSet' = [lastSet EXCEPT ![k] = NoSet]
    /\ lastGet' = NoGet
    /\ UNCHANGED <<poolVars, doVars, restVars, cnow, ppc, pentry, fresh>>

NextCache ==
    \/ Tick
    \/ \E k \in CacheKeys : \E f \in {Unreadable, Partial} : Damage(k, f)
    \/ \E k \in CacheKeys : Get(k)
    \/ \E k \in CacheKeys : \E d \in Docs : Set(k, d)
    \/ \E k \in CacheKeys : Delete(k)
    \/ Clear

\* The calls of one caller, one after another.
SpecCache == InitCache /\ [][NextCache]_vars

\* ------------------------------------------------------------------------
\* Claims about the cache
\* ------------------------------------------------------------------------

\* C18: after any sequence of Set, Get, Delete and Clear calls and clock
\* advances, a Get never returns found = true for an entry whose expiresAt
\* is earlier than the time of the call, and a Get that sees an expired
\* entry removes it from the store.
C18_NoExpiredHit ==
    lastGet.key # "none"
        => /\ lastGet.found
                 => /\ lastGet.seen.kind = "entry"
                    /\ lastGet.seen.expiresAt >= lastGet.at
                    /\ lastGet.data = lastGet.seen.data
           /\ (lastGet.seen.kind = "entry" /\ lastGet.seen.expiresAt < lastGet.at)
                 => (~lastGet.found /\ store[lastGet.key] = NoFile)

C18_Witness ==
    /\ lastGet.key = "k1"
    /\ lastGet.seen = Entry("[3]", 6)
    /\ lastGet.at = 7
    /\ ~lastGet.found
    /\ store["k1"] = NoFile
    /\ store["k2"] # NoFile

Writing == {p \in Procs : ppc[p] \in {"s_open", "s_write"}}

\* Get: os.ReadFile(path) and json.Unmarshal.
GetRead(p) ==
    /\ ppc[p] = "idle"
    /\ pentry' = [pentry EXCEPT ![p] = store[SharedKey]]
    /\ ppc' = [ppc EXCEPT ![p] = "g_check"]
    /\ UNCHANGED <<poolVars, doVars, restVars, cnow, store, lastGet, lastSet, fresh>>

\* Get: the miss of an absent or unreadable file, or the expiry check of
\* the entry read; an entry that is not expired is returned.
GetCheck(p) ==
    /\ ppc[p] = "g_check"
    /\ ppc' = [ppc EXCEPT ![p] =
                  IF Decodes(pentry[p]) /\ Expired(cnow, pentry[p].expiresAt)
                  THEN "g_remove" ELSE "idle"]
    /\ UNCHANGED <<poolVars, doVars, restVars, cnow, store, lastGet, lastSet, pentry, fresh>>

\* Get: os.Remove(path) after the entry read was found expired.
GetRemove(p) ==
    /\ ppc[p] = "g_remove"
    /\ store' = [store EXCEPT ![SharedKey] = NoFile]
    /\ ppc' = [ppc EXCEPT ![p] = "idle"]
    /\ UNCHANGED <<poolVars, doVars, restVars, cnow, lastGet, lastSet, pentry, fresh>>

\* Set: time.Now() and json.Marshal of the entry.
SetEncode(p, d) ==
    /\ ppc[p] = "idle"
    /\ ValidJSON(d)
    /\ pentry' = [pentry EXCEPT ![p] = Entry(Compact(d), ExpiresAt(cnow))]
    /\ ppc' = [ppc EXCEPT ![p] = "s_open"]
    /\ fresh' = NoFile
    /\ UNCHANGED <<poolVars, doVars, restVars, cnow, store, lastGet, lastSet>>

\* Set: os.WriteFile opens the file with O_TRUNC.
SetTruncate(p) ==
    /\ ppc[p] = "s_open"
    /\ store' = [store EXCEPT ![SharedKey] = Unreadable]
    /\ ppc' = [ppc EXCEPT ![p] = "s_write"]
    /\ UNCHANGED <<poolVars, doVars, restVars, cnow, lastGet, lastSet, pentry, fresh>>

\* The length of the encoded entry, up to what all entries share (time
\* stamps are taken to be of one length).
EncodedLen(f) == IF f.data = "[1,2]" THEN 5 ELSE 3

\* The file after os.WriteFile wrote new from offset 0 over old, the bytes
\* another writer put there since the truncation: the rest of a longer old
\* text stays behind the new one, and the file no longer decodes.
Overwrite(old, new) ==
    IF old.kind = "entry" /\ EncodedLen(old) > EncodedLen(new) THEN Unreadable ELSE new

\* Set: os.WriteFile writes the encoded entry from offset 0 and Set returns.
SetWrite(p) ==
    /\ ppc[p] = "s_write"
    /\ LET f == Overwrite(store[SharedKey], pentry[p])
       IN  /\ store' = [store EXCEPT ![SharedKey] = f]
           /\ fresh' = IF Writing = {p} /\ f = pentry[p] THEN f ELSE NoFile
    /\ ppc' = [ppc EXCEPT ![p] = "idle"]
    /\ UNCHANGED <<poolVars, doVars, restVars, cnow, lastGet, lastSet, pentry>>

\* Delete: os.Remove(path).
DeleteShared(p) ==
    /\ ppc[p] = "idle"
    /\ store' = [store EXCEPT ![SharedKey] = NoFile]
    /\ fresh' = NoFile
    /\ UNCHANGED <<poolVars, doVars, restVars, cnow, lastGet, lastSet, ppc, pentry>>

NextCacheRace ==
    \/ Tick
    \/ \E p \in Procs : GetRead(p)
    \/ \E p \in Procs : GetCheck(p)
    \/ \E p \in Procs : GetRemove(p)
    \/ \E p \in Procs : \E d \in Docs : SetEncode(p, d)
    \/ \E p \in Procs : SetTruncate(p)
    \/ \E p \in Procs : SetWrite(p)
    \/ \E p \in Procs : DeleteShared(p)

SpecCacheRace == InitCache /\ [][NextCacheRace]_vars

\* C20: Get, Set and Delete on one key behave as if executed one at a time:
\* an entry written by a completed Set stays in the store until its TTL has
\* elapsed or a later Set or Delete replaces it; a Get that purges an expired
\* entry never removes a fresh one.
C20_CompletedSetStays ==
    (fresh.kind = "entry" /\ cnow <= fresh.expiresAt)
        => store[SharedKey] = fresh

\* C21: concurrent Sets and Gets on one key never corrupt the entry: when no
\* Set is under way the file of the key is absent or decodes to an entry
\* whose data was passed whole to a Set, and a Get never holds data that was
\* not passed whole to a Set.
C21_NoCorruptEntry ==
    LET whole == {Compact(d) : d \in {x \in Docs : ValidJSON(x)}}
    IN  /\ Writing = {}
              => \/ store[SharedKey].kind = "none"
                 \/ store[SharedKey].kind = "entry" /\ store[SharedKey].data \in whole
        /\ \A p \in Procs :
              (ppc[p] \in {"g_check", "g_remove"} /\ pentry[p].kind = "entry")
                  => pentry[p].data \in whole

\* ========================================================================
\* Part 4: Client.get of package bitbucket, the user of the cache.
\* ========================================================================

\* What one c.httpClient.Do call can produce: a transport error (status 0)
\* or a response, as <<status, body>>.
GetOutcomes == {<<0, "nil">>, <<200, "[1,2]">>, <<200, "[1, 2]">>, <<200, "diff">>,
             <<404, "[3]">>, <<429, "[3]">>, <<500, "[3]">>}

\* Minutes Client.do sleeps before it sends again after a 429: none (the
\* reset time has passed) or one (no X-RateLimit-Reset header: 60 s).
ResetWaits == {0, 1}

\* Mutant: every status from 200 up passes checkResponse.
StatusOK_any(st) == st >= 200

\* checkResponse returns nil.
StatusOK(st) == st >= 200 /\ st < 300

\* Mutant: the cache is used whatever the option says.
UseCache_always(nc) == TRUE

\* Client.get: "if !c.noCache".
UseCache(nc) == ~nc

\* The cache directory may hold an entry an earlier run wrote at time 0.
InitClient ==
    /\ PoolIdle
    /\ DoIdle
    /\ cnow = 0
    /\ lastGet = NoGet
    /\ lastSet = [k \in CacheKeys |-> NoSet]
    /\ ppc = [p \in Procs |-> "idle"]
    /\ pentry = [p \in Procs |-> NoFile]
    /\ fresh = NoFile
    /\ \E pre \in BOOLEAN : \E nc \in BOOLEAN : \E r \in BOOLEAN :
          /\ store = [k \in CacheKeys |->
                         IF pre /\ k = "k1" THEN Entry("[3]", ExpiresAt(0)) ELSE NoFile]
          /\ aux = [AuxIdle EXCEPT
                       !.client = [noCache |-> nc, retry |-> r, last |-> NoCall,
                                   prev |-> store,
                                   from |-> IF pre THEN {<<"k1", 200, "[3]">>} ELSE {}]]

\* Client.get(path) for the URL with key k.  o1 is what the first send
\* produces; after a 429 with the retry option Client.do sleeps dt minutes
\* and sends once more, which produces o2.
ClientGet(k, o1, o2, dt) ==
    LET useCache == UseCache(client.noCache)
        f == store[k]
        hit == useCache /\ Decodes(f) /\ ~Expired(cnow, f.expiresAt)
        afterGet == IF useCache /\ Decodes(f) /\ Expired(cnow, f.expiresAt)
                    THEN [store EXCEPT ![k] = NoFile]
                    ELSE store
        again == o1[1] = 429 /\ client.retry
        final == IF again THEN o2 ELSE o1
        t == IF again THEN cnow + dt ELSE cnow
        ok == final[1] # 0 /\ StatusOK(final[1])
        caches == ok /\ useCache /\ ValidJSON(final[2])
    IN  /\ t <= MaxClock
        /\ ~again => (o2 = o1 /\ dt = 0)
        /\ hit => (o2 = o1 /\ dt = 0 /\ o1[1] = 0)
        /\ IF hit
           THEN /\ aux' = [aux EXCEPT
                              !.client.last = [key |-> k, at |-> cnow, sent |-> 0,
                                               status |-> 0, hit |-> TRUE, ret |-> f.data],
                              !.client.prev = store]
                /\ UNCHANGED <<cnow, store>>
           ELSE /\ cnow' = t
                /\ store' = IF caches
                            THEN [afterGet EXCEPT
                                     ![k] = Entry(Compact(final[2]), ExpiresAt(t))]
                            ELSE afterGet
                /\ aux' = [aux EXCEPT
                              !.client.last = [key |-> k, at |-> cnow,
                                               sent |-> IF again THEN 2 ELSE 1,
                                               status |-> final[1], hit |-> FALSE,
                                               ret |-> IF ok THEN final[2] ELSE "err"],
                              !.client.prev = store,
                              !.client.from =
                                  IF caches
                                  THEN client.from \cup {<<k, final[1], final[2]>>}
                                  ELSE client.from]
        /\ UNCHANGED <<poolVars, doVars, lastGet, lastSet, ppc, pentry, fresh>>

NextClient ==
    \/ Tick
    \/ \E k \in CacheKeys : \E o1 \in GetOutcomes : \E o2 \in GetOutcomes : \E dt \in ResetWaits :
          ClientGet(k, o1, o2, dt)

SpecClient == InitClient /\ [][NextClient]_vars

\* The cache as a map of its live entries at time t.
Live(st, t) ==
    [k \in CacheKeys |->
        IF st[k].kind = "entry" /\ st[k].expiresAt >= t THEN st[k] ELSE NoFile]

C24_NoCacheBypasses ==
    (client.noCache /\ client.last.key # "none")
        => /\ client.last.sent >= 1
           /\ ~client.last.hit
           /\ store = client.prev

C24_Witness ==
    /\ client.noCache
    /\ cnow <= 5
    /\ store["k1"] = Entry("[3]", 5)
    /\ client.last.key = "k1"
    /\ client.last.sent = 1
    /\ client.last.status = 200
    /\ client.last.ret = "[1,2]"

\* C23: a Get on a key whose file holds a partially written or otherwise
\* undecodable entry returns (nil, false): none of the bytes of the file is
\* returned (Get has no error result).
C23_UndecodableIsMiss ==
    (lastGet.key # "none" /\ lastGet.seen.kind = "unreadable")
        => (~lastGet.found /\ lastGet.data = "nil")

C23_Witness ==
    /\ lastGet.key = "k1"
    /\ lastGet.seen = Partial
    /\ ~lastGet.found
    /\ lastGet.data = "nil"
    /\ store["k1"] = Partial

\* ------------------------------------------------------------------------
\* Part 5: the diff parser (internal/output/diff.go)
\* ------------------------------------------------------------------------

\* The files a diff names.
Files == {"f1", "f2"}

\* The lines a diff text is made of. A body line is its first character.
DiffLines ==
    {"diff --git a/f1 b/f1", "diff --git a/f2 b/f2",
     "@@ -1 +1 @@", "@@ -3,2 +2,2 @@", "@@ bad",
     "+", "-", " "}

\* strings.HasPrefix(line, "diff --git")
IsDiffLine(line) == line \in {"diff --git a/f1 b/f1", "diff --git a/f2 b/f2"}

\* strings.Split(line, " b/")[1]
FileOf(line) == IF line = "diff --git a/f1 b/f1" THEN "f1" ELSE "f2"

\* strings.HasPrefix(line, "@@")
IsAtLine(line) == line \in {"@@ -1 +1 @@", "@@ -3,2 +2,2 @@", "@@ bad"}

\* hunkHeaderRegex.FindStringSubmatch(line) # nil
Matches(line) == line \in {"@@ -1 +1 @@", "@@ -3,2 +2,2 @@"}

\* The hunk a matching header line starts: the four numbers of the header, a
\* count that is left out being 1.
HeaderHunk(line, file) ==
    IF line = "@@ -1 +1 @@"
    THEN [Header |-> line, OldStart |-> 1, OldCount |-> 1, NewStart |-> 1,
          NewCount |-> 1, Lines |-> <<>>, FilePath |-> file]
    ELSE [Header |-> line, OldStart |-> 3, OldCount |-> 2, NewStart |-> 2,
          NewCount |-> 2, Lines |-> <<>>, FilePath |-> file]

\* strings.HasPrefix(line, "+") || ... "-" || ... " "
IsBodyLine(line) == line \in {"+", "-", " "}

\* NewDiffParser(): a parser with an empty map, whatever was parsed before.
NewDiffParser_shared(prior) == prior

NewDiffParser(prior) == [f \in Files |-> <<>>]

\* p.hunks[currentFile] = append(p.hunks[currentFile], *currentHunk), done
\* when currentHunk != nil && currentFile != "".
Flush(st) ==
    IF st.hunk # NoHunk /\ st.file # ""
    THEN [st.hunks EXCEPT ![st.file] = Append(@, st.hunk)]
    ELSE st.hunks

\* One iteration of the scanner loop of Parse. A "@@" line that does not match
\* the header grammar takes the continue with currentHunk left as it was.
ParseLine(st, line) ==
    IF IsDiffLine(line)
    THEN [file |-> FileOf(line), hunk |-> NoHunk, hunks |-> Flush(st)]
    ELSE IF IsAtLine(line)
    THEN IF ~Matches(line)
         THEN [st EXCEPT !.hunks = Flush(st)]
         ELSE [file |-> st.file, hunk |-> HeaderHunk(line, st.file), hunks |-> Flush(st)]
    ELSE IF st.hunk # NoHunk /\ IsBodyLine(line)
    THEN [st EXCEPT !.hunk.Lines = Append(@, line)]
    ELSE st

RECURSIVE Scan(_, _)
Scan(st, lines) ==
    IF lines = <<>> THEN st ELSE Scan(ParseLine(st, Head(lines)), Tail(lines))

\* Parse(diff) on a parser whose map is p: the loop, then the last hunk.
Parse(p, lines) ==
    Flush(Scan([file |-> "", hunk |-> NoHunk, hunks |-> p], lines))

\* hunkContainsLine: the loop over hunk.Lines from position ix on, with the
\* counters newLine and oldLine.
RECURSIVE containsFrom(_, _, _, _, _)
containsFrom(lines, ix, newLine, oldLine, lineNum) ==
    IF ix > Len(lines) THEN FALSE
    ELSE IF lines[ix] = "+"
    THEN newLine = lineNum \/ containsFrom(lines, ix + 1, newLine + 1, oldLine, lineNum)
    ELSE IF lines[ix] = "-"
    THEN oldLine = lineNum \/ containsFrom(lines, ix + 1, newLine, oldLine + 1, lineNum)
    ELSE \/ newLine = lineNum
         \/ oldLine = lineNum
         \/ containsFrom(lines, ix + 1, newLine + 1, oldLine + 1, lineNum)

hunkContainsLine_newOnly(hunk, lineNum) ==
    \E ix \in 1..Len(hunk.Lines) :
        /\ hunk.Lines[ix] # "-"
        /\ lineNum = hunk.NewStart
                       + Cardinality({jx \in 1..(ix - 1) : hunk.Lines[jx] # "-"})

hunkContainsLine(hunk, lineNum) ==
    containsFrom(hunk.Lines, 1, hunk.NewStart, hunk.OldStart, lineNum)

\* GetHunkForLine: the first hunk of the file that contains the line, nil when
\* the file has no hunks or none contains it.
GetHunkForLine(p, filePath, lineNum) ==
    LET hs == p[filePath]
        found == {ix \in 1..Len(hs) : hunkContainsLine(hs[ix], lineNum)}
    IN  IF found = {} THEN NoHunk
        ELSE hs[CHOOSE ix \in found : \A jx \in found : ix <= jx]

\* findContextRange, first loop: the index (from 0) of the first line that is
\* not removed and whose new-line number is targetLine, -1 when there is none.
targetIdx(hunk, targetLine) ==
    LET at == {ix \in 1..Len(hunk.Lines) :
                  /\ hunk.Lines[ix] # "-"
                  /\ targetLine = hunk.NewStart
                        + Cardinality({jx \in 1..(ix - 1) : hunk.Lines[jx] # "-"})}
    IN  IF at = {} THEN 0 - 1
        ELSE (CHOOSE ix \in at : \A jx \in at : ix <= jx) - 1

\* findContextRange: <<startIdx, endIdx>>, indexes from 0.
findContextRange(hunk, targetLine, contextLines) ==
    LET t == targetIdx(hunk, targetLine)
        lo == t - contextLines
        hi == t + contextLines
    IN  IF t < 0 THEN <<0, Len(hunk.Lines) - 1>>
        ELSE <<IF lo < 0 THEN 0 ELSE lo,
               IF hi >= Len(hunk.Lines) THEN Len(hunk.Lines) - 1 ELSE hi>>

\* FormatContext: the hunk lines written between the fence and the header
\* above and the fence below.
FormatContext(hunk, targetLine, contextLines) ==
    LET rg == findContextRange(hunk, targetLine, contextLines)
    IN  [ix \in 1..(rg[2] - rg[1] + 1) |-> hunk.Lines[rg[1] + ix]]

\* The line numbers and radii asked for.
LineNums == 0..MaxLines

Radii == {0, 1, 3}

InitDiff ==
    /\ PoolIdle
    /\ DoIdle
    /\ CacheIdle
    /\ RestIdle

\* The caller's diff text grows by one line.
AddLine(line) ==
    /\ ~index.done
    /\ Len(text) < MaxLines
    /\ aux' = [aux EXCEPT !.text = Append(text, line)]
    /\ UNCHANGED <<poolVars, doVars, cacheVars>>

\* NewDiffParser() and Parse(text), done twice over.
ParseText ==
    /\ ~index.done
    /\ LET first == Parse(NewDiffParser(index.hunks), text)
           second == Parse(NewDiffParser(first), text)
       IN  aux' = [aux EXCEPT !.index = [done |-> TRUE, hunks |-> first],
                              !.reparsed = [done |-> TRUE, hunks |-> second]]
    /\ UNCHANGED <<poolVars, doVars, cacheVars>>

\* GetHunkForLine(path, n) and, if a hunk came back, FormatContext(n, r) on it,
\* as FormatDiffContext does with r = 3: one lookup on the parser it made.
Lookup(path, n, r) ==
    /\ index.done
    /\ look = NoLook
    /\ LET hunk == GetHunkForLine(index.hunks, path, n)
       IN  aux' = [aux EXCEPT
                      !.look = [path |-> path, n |-> n, r |-> r, hunk |-> hunk,
                                range |-> IF hunk = NoHunk THEN <<0, 0>>
                                          ELSE findContextRange(hunk, n, r),
                                out |-> IF hunk = NoHunk THEN <<>>
                                        ELSE FormatContext(hunk, n, r)]]
    /\ UNCHANGED <<poolVars, doVars, cacheVars>>

NextDiff ==
    \/ \E line \in DiffLines : AddLine(line)
    \/ ParseText
    \/ \E path \in Files : \E n \in LineNums : \E r \in Radii : Lookup(path, n, r)

SpecDiff == InitDiff /\ [][NextDiff]_vars

\* The new-line number and the old-line number of line k of a hunk, replayed
\* from NewStart and OldStart: an added line advances only the new counter, a
\* removed line only the old one, any other line both.
NewNo(h, k) == h.NewStart + Cardinality({m \in 1..(k - 1) : h.Lines[m] # "-"})

OldNo(h, k) == h.OldStart + Cardinality({m \in 1..(k - 1) : h.Lines[m] # "+"})

Touches(h, n) ==
    \E k \in 1..Len(h.Lines) :
        \/ h.Lines[k] \in {"+", " "} /\ n = NewNo(h, k)
        \/ h.Lines[k] \in {"-", " "} /\ n = OldNo(h, k)

\* C25: GetHunkForLine(path, n) returns a hunk of that file exactly when n is
\* the new-line number of an added or context line, or the old-line number of
\* a removed or context line, of some hunk of the file; the hunk returned is
\* such a hunk, and otherwise the result is nil.
C25_HunkFoundIffLineTouched ==
    look.path # "none"
        => LET hs == index.hunks[look.path]
           IN  /\ (look.hunk # NoHunk) <=> (\E k \in 1..Len(hs) : Touches(hs[k], look.n))
               /\ look.hunk # NoHunk
                     => /\ \E k \in 1..Len(hs) : hs[k] = look.hunk
                        /\ look.hunk.FilePath = look.path
                        /\ Touches(look.hunk, look.n)

C25_Witness ==
    /\ text = <<"diff --git a/f2 b/f2", "@@ -3,2 +2,2 @@", "+", "-">>
    /\ look.path = "f2"
    /\ look.n = 3
    /\ look.hunk # NoHunk
    /\ look.hunk.Lines = <<"+", "-">>
    /\ index.hunks["f1"] = <<>>

\* The diff text without its malformed "@@" lines and without the body lines
\* that follow each of them (up to the next "diff --git" or "@@" line);
\* skipping says whether the last header seen was a malformed one.
RECURSIVE StripFrom(_, _)
StripFrom(lines, skipping) ==
    IF lines = <<>> THEN <<>>
    ELSE LET line == Head(lines)
         IN  IF IsAtLine(line) /\ ~Matches(line) THEN StripFrom(Tail(lines), TRUE)
             ELSE IF IsDiffLine(line) \/ IsAtLine(line)
             THEN <<line>> \o StripFrom(Tail(lines), FALSE)
             ELSE IF skipping THEN StripFrom(Tail(lines), TRUE)
             ELSE <<line>> \o StripFrom(Tail(lines), FALSE)

Strip(lines) == StripFrom(lines, FALSE)

\* C26: a line that starts with "@@" and does not match the header grammar is
\* skipped and its hunk contributes nothing: the index Parse builds equals the
\* index of the same text with that line and its body lines removed (no hunk is
\* added, duplicated or extended).
C26_MalformedHeaderSkipped ==
    index.done => index.hunks = Parse(NewDiffParser(index.hunks), Strip(text))

\* The window of radius r around index t (from 0) of a hunk of len lines,
\* clipped to the hunk.
Window(t, r, len) ==
    <<IF t - r < 0 THEN 0 ELSE t - r, IF t + r >= len THEN len - 1 ELSE t + r>>

\* C27: when GetHunkForLine returned a hunk for line n, FormatContext(n, r)
\* writes a contiguous run of at most 2*r+1 of the hunk's lines: the window of
\* radius r around the index of a line of the hunk that n names (by new-line
\* number for an added or context line, by old-line number for a removed or
\* context line), clipped to the hunk.
C27_ContextWindowBounded ==
    look.hunk # NoHunk
        => LET h == look.hunk
           IN  /\ Len(look.out) <= 2 * look.r + 1
               /\ \E k \in 1..Len(h.Lines) :
                     /\ \/ h.Lines[k] \in {"+", " "} /\ look.n = NewNo(h, k)
                        \/ h.Lines[k] \in {"-", " "} /\ look.n = OldNo(h, k)
                     /\ look.range = Window(k - 1, look.r, Len(h.Lines))
                     /\ look.out = SubSeq(h.Lines, look.range[1] + 1, look.range[2] + 1)

LocOrder == << <<"", 0>>, <<"a", 5>> >>

\* The comments with ID id that a page of the API can hold: a root comment at a
\* location, or a reply (Parent set) to another ID; deleted or not, resolved
\* (Resolution set) or not; here created in the order of their IDs.
CommentsWithID(id) ==
    {[ID |-> id, Parent |-> 0, path |-> LocOrder[l][1], line |-> LocOrder[l][2],
      Deleted |-> d, Resolved |-> r, CreatedOn |-> id] :
        l \in 1..Len(LocOrder), d \in BOOLEAN, r \in BOOLEAN}
    \cup
    {[ID |-> id, Parent |-> q, path |-> "", line |-> 0, Deleted |-> d, Resolved |-> r,
      CreatedOn |-> id] :
        q \in 1..MaxComments \ {id}, d \in BOOLEAN, r \in BOOLEAN}

\* The same comments, neither deleted nor resolved, with any creation time.
DatedComments(id) ==
    {[c EXCEPT !.CreatedOn = t] :
        c \in {x \in CommentsWithID(id) : ~x.Deleted /\ ~x.Resolved},
        t \in 1..MaxComments}

\* filterComments, the test of one comment.
Keeps_all(c, includeResolved) == TRUE

Keeps(c, includeResolved) ==
    /\ ~c.Deleted
    /\ includeResolved \/ ~c.Resolved

\* filterComments
filterComments(cs, includeResolved) ==
    SelectSeq(cs, LAMBDA c : Keeps(c, includeResolved))

\* groupByLocation: grouped[key], the root comments at key in the order given.
groupByLocation(cs, key) ==
    SelectSeq(cs, LAMBDA c : c.Parent = 0 /\ <<c.path, c.line>> = key)

\* What writeComment(c, depth) puts on the writer, under the heading of key;
\* for a reply, under is the comment it was written beneath.
Entry29(c, depth, key, under) == [id |-> c.ID, depth |-> depth, key |-> key, under |-> under]

\* writeGroupedComments, inner loops: each root of the group followed by the
\* comments whose Parent.ID is the root's ID.
RECURSIVE writeRoots(_, _, _)
writeRoots(roots, allComments, key) ==
    IF roots = <<>> THEN <<>>
    ELSE LET parent == Head(roots)
             replies == SelectSeq(allComments,
                                  LAMBDA c : c.Parent # 0 /\ c.Parent = parent.ID)
         IN  <<Entry29(parent, 0, key, 0)>>
             \o [k \in 1..Len(replies) |-> Entry29(replies[k], 1, key, parent.ID)]
             \o writeRoots(Tail(roots), allComments, key)

\* writeGroupedComments, outer loop over the sorted keys that have a group.
RECURSIVE writeGroupedComments(_, _)
writeGroupedComments(keys, allComments) ==
    IF keys = <<>> THEN <<>>
    ELSE writeRoots(groupByLocation(allComments, Head(keys)), allComments, Head(keys))
         \o writeGroupedComments(Tail(keys), allComments)

InitComments ==
    /\ PoolIdle
    /\ DoIdle
    /\ CacheIdle
    /\ RestIdle

\* The caller's list grows by one comment; IDs are given in order.
AddComment(c) ==
    /\ ~written.done
    /\ Len(comments) < MaxComments
    /\ c.ID = Len(comments) + 1
    /\ aux' = [aux EXCEPT !.comments = Append(comments, c)]
    /\ UNCHANGED <<poolVars, doVars, cacheVars>>

\* WriteComments(comments, includeResolved)
WriteComments(includeResolved) ==
    /\ ~written.done
    /\ LET filtered == filterComments(comments, includeResolved)
       IN  aux' = [aux EXCEPT
                      !.written = [done |-> TRUE, includeResolved |-> includeResolved,
                                   filtered |-> filtered,
                                   out |-> IF filtered = <<>> THEN <<>>
                                           ELSE writeGroupedComments(LocOrder, filtered)]]
    /\ UNCHANGED <<poolVars, doVars, cacheVars>>

NextComments ==
    \/ \E id \in 1..MaxComments : \E c \in CommentsWithID(id) : AddComment(c)
    \/ \E includeResolved \in BOOLEAN : WriteComments(includeResolved)

SpecComments == InitComments /\ [][NextComments]_vars

\* The same calls on comments listed in any order of creation.
NextDated ==
    \/ \E id \in 1..MaxComments : \E c \in DatedComments(id) : AddComment(c)
    \/ \E includeResolved \in BOOLEAN : WriteComments(includeResolved)

SpecDated == InitComments /\ [][NextDated]_vars

\* The ID of the root of the thread of the comment id among the comments cs,
\* following Parent for at most hops steps; 0 when the chain leaves cs or does
\* not end at a root within hops steps.
RECURSIVE ThreadRoot(_, _, _)
ThreadRoot(cs, id, hops) ==
    LET at == {k \in 1..Len(cs) : cs[k].ID = id}
    IN  IF at = {} THEN 0
        ELSE LET c == cs[CHOOSE k \in at : TRUE]
             IN  IF c.Parent = 0 THEN c.ID
                 ELSE IF hops = 0 THEN 0
                 ELSE ThreadRoot(cs, c.Parent, hops - 1)

\* C29: every comment that survives filtering is written exactly once: a root
\* under the group of its (path, line), and a reply, at any reply depth, as a
\* reply beneath the root of its thread (stated for the replies whose chain of
\* parents ends at a surviving root).
C29_EverySurvivorWrittenOnce ==
    written.done
        => \A k \in 1..Len(written.filtered) :
              LET c == written.filtered[k]
                  at == {m \in 1..Len(written.out) : written.out[m].id = c.ID}
                  root == ThreadRoot(written.filtered, c.ID, MaxComments)
              IN  root # 0
                     => /\ Cardinality(at) = 1
                        /\ \A m \in at :
                              IF c.Parent = 0
                              THEN /\ written.out[m].depth = 0
                                   /\ written.out[m].key = <<c.path, c.line>>
                              ELSE /\ written.out[m].depth = 1
                                   /\ written.out[m].under = root

\* C30: WriteComments never writes a deleted comment and, when includeResolved
\* is false, never writes a resolved one; with includeResolved true every
\* comment that is not deleted passes the filter.
C30_FilterDropsDeletedAndResolved ==
    written.done
        => /\ \A m \in 1..Len(written.out) :
                 \E k \in 1..Len(comments) :
                     /\ comments[k].ID = written.out[m].id
                     /\ ~comments[k].Deleted
                     /\ written.includeResolved \/ ~comments[k].Resolved
           /\ \A k \in 1..Len(written.filtered) :
                 /\ ~written.filtered[k].Deleted
                 /\ written.includeResolved \/ ~written.filtered[k].Resolved
           /\ written.includeResolved
                 => written.filtered = SelectSeq(comments, LAMBDA c : ~c.Deleted)

C30_Witness ==
    /\ Len(comments) = 3
    /\ comments[1].Parent = 0 /\ comments[1].Resolved /\ ~comments[1].Deleted
    /\ comments[2].Parent = 1 /\ comments[2].Deleted
    /\ comments[3].Parent = 1 /\ ~comments[3].Deleted /\ ~comments[3].Resolved
    /\ written.done
    /\ written.includeResolved
    /\ Len(written.filtered) = 2
    /\ Len(written.out) = 2
    /\ written.out[2].id = 3

\* The creation time of the comment written as entry m of the output.
CreatedOf(m) ==
    LET at == {k \in 1..Len(comments) : comments[k].ID = written.out[m].id}
    IN  comments[CHOOSE k \in at : TRUE].CreatedOn

\* C31: within each location group the roots are written in ascending creation
\* time, and beneath each root its replies are written in ascending creation
\* time, whatever the order of the list handed to WriteComments.
C31_WrittenInCreationOrder ==
    written.done
        => \A m1, m2 \in 1..Len(written.out) :
              (/\ m1 < m2
               /\ written.out[m1].depth = written.out[m2].depth
               /\ written.out[m1].key = written.out[m2].key
               /\ written.out[m1].under = written.out[m2].under)
                  => CreatedOf(m1) <= CreatedOf(m2)

\* ------------------------------------------------------------------------
\* Part 7: the batch commands on worker.NewPool (runGet, runConfluenceGet,
\* runBitbucketGetPR)
\* ------------------------------------------------------------------------

\* make(chan Job, maxWorkers*2) and make(chan error, maxWorkers*2)
ChanCap(n) == n * 2

BatchWorkers == 1..batch.n

\* The command has read its inputs (at least one) and called
\* worker.NewPool(ctx, concurrency) with concurrency > 0: the workers wait on
\* the jobs channel.
InitBatch ==
    /\ PoolIdle
    /\ DoIdle
    /\ CacheIdle
    /\ \E n \in 1..MaxConc : \E k \in 1..MaxInputs :
          aux = [AuxIdle EXCEPT
                    !.batch = [n |-> n, inputs |-> k, mpc |-> "submit", submitted |-> 0,
                               jobs |-> 0, closed |-> FALSE,
                               wk |-> [w \in 1..n |-> "idle"], results |-> 0,
                               resultsClosed |-> FALSE, received |-> 0]]

\* pool.Submit(job) in the loop over the inputs: the send on p.jobs goes
\* through when the channel has room (p.ctx is not cancelled before the
\* command returns, so the other case of the select is never ready).
BatchSubmit ==
    /\ batch.mpc = "submit"
    /\ batch.submitted < batch.inputs
    /\ batch.jobs < ChanCap(batch.n)
    /\ aux' = [aux EXCEPT !.batch.jobs = @ + 1, !.batch.submitted = @ + 1]
    /\ UNCHANGED <<poolVars, doVars, cacheVars>>

\* pool.Close() after the loop, and "go func() { pool.Wait() }()"; the command
\* goes on to range over pool.Results().
BatchClose ==
    /\ batch.mpc = "submit"
    /\ batch.submitted = batch.inputs
    /\ aux' = [aux EXCEPT !.batch.closed = TRUE, !.batch.mpc = "range"]
    /\ UNCHANGED <<poolVars, doVars, cacheVars>>

\* worker: "case job, ok := <-p.jobs" with a job: the job is called.
BatchTake(w) ==
    /\ batch.wk[w] = "idle"
    /\ batch.jobs > 0
    /\ aux' = [aux EXCEPT !.batch.jobs = @ - 1, !.batch.wk[w] = "run"]
    /\ UNCHANGED <<poolVars, doVars, cacheVars>>

\* worker: the job returns (every job terminates).
BatchJobReturns(w) ==
    /\ batch.wk[w] = "run"
    /\ aux' = [aux EXCEPT !.batch.wk[w] = "send"]
    /\ UNCHANGED <<poolVars, doVars, cacheVars>>

\* worker: "case p.results <- err" goes through when the channel has room.
BatchSend(w) ==
    /\ batch.wk[w] = "send"
    /\ batch.results < ChanCap(batch.n)
    /\ aux' = [aux EXCEPT !.batch.results = @ + 1, !.batch.wk[w] = "idle"]
    /\ UNCHANGED <<poolVars, doVars, cacheVars>>

\* worker: "case job, ok := <-p.jobs" on the closed and drained channel:
\* return, and wg.Done().
BatchWorkerExit(w) ==
    /\ batch.wk[w] = "idle"
    /\ batch.jobs = 0
    /\ batch.closed
    /\ aux' = [aux EXCEPT !.batch.wk[w] = "exit"]
    /\ UNCHANGED <<poolVars, doVars, cacheVars>>

\* The goroutine in pool.Wait(): p.wg.Wait() returns when every worker has
\* returned, then close(p.results).
BatchWait ==
    /\ batch.closed
    /\ ~batch.resultsClosed
    /\ \A w \in BatchWorkers : batch.wk[w] = "exit"
    /\ aux' = [aux EXCEPT !.batch.resultsClosed = TRUE]
    /\ UNCHANGED <<poolVars, doVars, cacheVars>>

\* "for err := range pool.Results()": one result is received.
BatchReceive ==
    /\ batch.mpc = "range"
    /\ batch.results > 0
    /\ aux' = [aux EXCEPT !.batch.results = @ - 1, !.batch.received = @ + 1]
    /\ UNCHANGED <<poolVars, doVars, cacheVars>>

\* The range loop ends on the closed and drained channel: the command returns.
BatchReturn ==
    /\ batch.mpc = "range"
    /\ batch.results = 0
    /\ batch.resultsClosed
    /\ aux' = [aux EXCEPT !.batch.mpc = "returned"]
    /\ UNCHANGED <<poolVars, doVars, cacheVars>>

BatchMain == BatchSubmit \/ BatchClose \/ BatchReceive \/ BatchReturn

BatchWorker(w) == BatchTake(w) \/ BatchJobReturns(w) \/ BatchSend(w) \/ BatchWorkerExit(w)

NextBatch ==
    \/ BatchMain
    \/ \E w \in BatchWorkers : BatchWorker(w)
    \/ BatchWait

SpecBatch == InitBatch /\ [][NextBatch]_vars

\* Every goroutine that can take a step eventually takes one.
FairSpecBatch ==
    /\ SpecBatch
    /\ WF_vars(BatchMain)
    /\ WF_vars(\E w \in BatchWorkers : BatchWorker(w))
    /\ WF_vars(BatchWait)

\* C32: for every number of inputs and every concurrency N >= 1 a batch
\* command submits every input, receives exactly one result per input and
\* returns, every job terminating.
C32_BatchTerminates ==
    <>(/\ batch.mpc = "returned"
       /\ batch.submitted = batch.inputs
       /\ batch.received = batch.inputs)

\* ------------------------------------------------------------------------
\* Part 8: Client.ListRepositories (package bitbucket)
\* ------------------------------------------------------------------------

\* The number of values on the pages before page p.
RECURSIVE Before(_, _)
Before(pages, p) == IF p <= 1 THEN 0 ELSE Before(pages, p - 1) + Len(pages[p - 1])

\* "if limit > 0 && len(repositories) >= limit"
LimitReached_never(len, limit) == FALSE

LimitReached(len, limit) == limit > 0 /\ len >= limit

\* The loop over page.Values: each value is appended and the limit tested;
\* <<repositories, whether the function returned from inside the loop>>.
RECURSIVE appendValues(_, _, _)
appendValues(acc, values, limit) ==
    IF values = <<>> THEN <<acc, FALSE>>
    ELSE LET more == Append(acc, Head(values))
         IN  IF LimitReached(Len(more), limit)
             THEN <<SubSeq(more, 1, limit), TRUE>>
             ELSE appendValues(more, Tail(values), limit)

\* The loop "for nextURL != """ from page p on: page p is requested and
\* decoded, its values appended; page.Next is the URL of page p + 1, empty on
\* the last page.
RECURSIVE listFrom(_, _, _, _, _)
listFrom(pages, p, acc, requested, limit) ==
    LET got == appendValues(acc, pages[p], limit)
    IN  IF got[2] THEN [ret |-> got[1], requested |-> requested + 1]
        ELSE IF p = Len(pages) THEN [ret |-> got[1], requested |-> requested + 1]
        ELSE listFrom(pages, p + 1, got[1], requested + 1, limit)

InitRepos ==
    /\ PoolIdle
    /\ DoIdle
    /\ CacheIdle
    /\ RestIdle

\* The server holds one more page, of 0 to 2 repositories; the repositories
\* are numbered in the order in which the pages list them.
AddPage(size) ==
    /\ ~repos.called
    /\ Len(repos.pages) < MaxPages
    /\ LET first == Before(repos.pages, Len(repos.pages) + 1)
       IN  aux' = [aux EXCEPT
                      !.repos.pages = Append(@, [k \in 1..size |-> first + k])]
    /\ UNCHANGED <<poolVars, doVars, cacheVars>>

\* ListRepositories(ctx, workspace, limit), every request answered with a page.
ListRepositories(limit) ==
    /\ ~repos.called
    /\ Len(repos.pages) >= 1
    /\ LET res == listFrom(repos.pages, 1, <<>>, 0, limit)
       IN  aux' = [aux EXCEPT !.repos.called = TRUE, !.repos.limit = limit,
                              !.repos.requested = res.requested, !.repos.ret = res.ret]
    /\ UNCHANGED <<poolVars, doVars, cacheVars>>

NextRepos ==
    \/ \E size \in 0..2 : AddPage(size)
    \/ \E limit \in 0..(2 * MaxPages + 1) : ListRepositories(limit)

SpecRepos == InitRepos /\ [][NextRepos]_vars

\* The least of two numbers.
Min(a, b) == IF a <= b THEN a ELSE b

\* C33: ListRepositories follows the next links to the last page and returns
\* the values of all pages in page order; with limit > 0 it returns exactly the
\* first min(limit, total) values and requests no page after the one on which
\* the limit is reached.
C33_AllPagesOrLimit ==
    repos.called
        => LET total == Before(repos.pages, Len(repos.pages) + 1)
               want == IF repos.limit > 0 THEN Min(repos.limit, total) ELSE total
           IN  /\ repos.ret = [k \in 1..want |-> k]
               /\ IF repos.limit > 0 /\ repos.limit <= total
                  THEN /\ Before(repos.pages, repos.requested) < repos.limit
                       /\ Before(repos.pages, repos.requested + 1) >= repos.limit
                  ELSE repos.requested = Len(repos.pages)

C33_Witness ==
    /\ repos.called
    /\ repos.pages = << <<1, 2>>, <<>>, <<3, 4>> >>
    /\ repos.limit = 3
    /\ repos.ret = <<1, 2, 3>>
    /\ repos.requested = 3

\* ------------------------------------------------------------------------
\* Part 9: Client.FindPullRequestByBranch (package bitbucket)
\* ------------------------------------------------------------------------

\* The loop over page.Values from position k on, selected being the position
\* chosen so far (0 for nil): an OPEN pull request is returned at once,
\* otherwise the one updated after the one selected so far replaces it.
RECURSIVE selectFrom(_, _, _)
selectFrom(values, k, selected) ==
    IF k > Len(values) THEN selected
    ELSE IF values[k].State = "OPEN" THEN k
    ELSE IF selected = 0 \/ values[k].UpdatedOn > values[selected].UpdatedOn
    THEN selectFrom(values, k + 1, k)
    ELSE selectFrom(values, k + 1, selected)

InitPRs ==
    /\ PoolIdle
    /\ DoIdle
    /\ CacheIdle
    /\ RestIdle

\* The response lists one more pull request of the branch.
AddPR(state, updated) ==
    /\ ~prs.called
    /\ Len(prs.values) < MaxPRs
    /\ aux' = [aux EXCEPT
                  !.prs.values = Append(@, [State |-> state, UpdatedOn |-> updated])]
    /\ UNCHANGED <<poolVars, doVars, cacheVars>>

\* FindPullRequestByBranch(workspace, repo, branch), the request answered:
\* not found when the page is empty, else the pull request selected.
FindPullRequestByBranch ==
    /\ ~prs.called
    /\ aux' = [aux EXCEPT
                  !.prs.called = TRUE,
                  !.prs.selected = IF Len(prs.values) = 0 THEN 0
                                   ELSE selectFrom(prs.values, 1, 0)]
    /\ UNCHANGED <<poolVars, doVars, cacheVars>>

NextPRs ==
    \/ \E state \in {"OPEN", "MERGED"} : \E updated \in 1..MaxPRs : AddPR(state, updated)
    \/ FindPullRequestByBranch

SpecPRs == InitPRs /\ [][NextPRs]_vars

\* C34: FindPullRequestByBranch returns the most recently updated open pull
\* request of the branch; when none is open, the most recently updated one;
\* when there is none, the not-found error.
C34_MostRecentOpen ==
    prs.called
        => LET all == 1..Len(prs.values)
               open == {k \in all : prs.values[k].State = "OPEN"}
               among == IF open # {} THEN open ELSE all
           IN  IF all = {} THEN prs.selected = 0
               ELSE /\ prs.selected \in among
                    /\ \A k \in among :
                          prs.values[k].UpdatedOn <= prs.values[prs.selected].UpdatedOn

\* C35: when the caller's context is cancelled before Do (A) returns and the
\* last send failed with the context's error, the last permitted attempt
\* included, Do does not return the "request failed after N attempts" error
\* (it returns the context's error itself).
C35_CancelIsNotExhaustion ==
    (dimpl = "A" /\ dpc = "done" /\ dctxDone /\ cause = "ctx")
        => derr # "exhausted"

\* C36: within one Do call (A) the delay to which jitter is added before retry
\* number k is baseBackoff * 2^k, whatever jitter was drawn and whatever
\* Retry-After value was honoured on the earlier retries of the call.
C36_BackoffDoublesFromBase ==
    (dimpl = "A" /\ dpc \in {"top", "inflight", "sleep", "asleep"})
        => delay = baseBackoff * Pow(backoffFactor, attempt)

\* C37: Wait (worker.New pool) returns nil only if every task for which
\* Submit returned nil was executed and returned nil; a task that was
\* accepted but skipped because of the cancellation makes Wait return a
\* non-nil error.
C37_NilWaitMeansAllSucceeded ==
    /\ (waited /\ ret = NoErr) =>
            \A t \in Tasks : (t <= i /\ tstate[t] \notin {"new", "rejected"}) =>
                /\ subRes[t] = NoErr
                /\ tstate[t] = "succeeded"
                /\ terr[t] = NoErr
    /\ (waited /\ \E t \in Tasks : tstate[t] = "skipped") => ret # NoErr

\* Wait has returned the parent's error alone: no task failed, one task was
\* accepted by Submit and then skipped by its worker.
C37_Witness ==
    /\ waited
    /\ perr = NoErr
    /\ ret = parentErr
    /\ ret # NoErr
    /\ \E t \in Tasks : tstate[t] = "skipped" /\ subRes[t] = NoErr

\* ------------------------------------------------------------------------
\* GetHunkForLine on a file with several hunks
\* ------------------------------------------------------------------------

\* The number of hunks of the diffs looked at below.
MaxHunks == 2

\* The bodies of a hunk: one or two added, removed or context lines.
HunkBodies ==
    {<<a>> : a \in {"+", "-", " "}}
        \cup {<<a, b>> : a \in {"+", "-", " "}, b \in {"+", "-", " "}}

\* The diff starts with the "diff --git" line of one file.
InitHunks ==
    /\ PoolIdle
    /\ DoIdle
    /\ CacheIdle
    /\ \E d \in {l \in DiffLines : IsDiffLine(l)} : aux = [AuxIdle EXCEPT !.text = <<d>>]

\* The caller's diff text grows by one hunk: a well-formed header and its body.
AddHunk(header, body) ==
    /\ ~index.done
    /\ Cardinality({k \in 1..Len(text) : IsAtLine(text[k])}) < MaxHunks
    /\ aux' = [aux EXCEPT !.text = text \o <<header>> \o body]
    /\ UNCHANGED <<poolVars, doVars, cacheVars>>

\* FormatDiffContext: parse, GetHunkForLine, FormatContext(lineNum, 3).
NextHunks ==
    \/ \E header \in {l \in DiffLines : IsAtLine(l) /\ Matches(l)} :
           \E body \in HunkBodies : AddHunk(header, body)
    \/ ParseText
    \/ \E path \in Files : \E n \in LineNums : Lookup(path, n, 3)

SpecHunks == InitHunks /\ [][NextHunks]_vars

\* Line n is the new-line number of an added or context line of hunk h.
InNew(h, n) ==
    \E k \in 1..Len(h.Lines) : h.Lines[k] # "-" /\ n = NewNo(h, k)

\* C38: if line n lies, by new-line numbering, inside exactly one hunk H of a
\* file, GetHunkForLine(path, n) returns H and not another hunk of the file
\* whose old-line numbering contains n.
C38_HunkByNewNumbering ==
    look.path # "none"
        => LET hs == index.hunks[look.path]
               at == {k \in 1..Len(hs) : InNew(hs[k], look.n)}
           IN  Cardinality(at) = 1 => look.hunk = hs[CHOOSE k \in at : TRUE]

\* ------------------------------------------------------------------------
\* printDocument called by the tasks of a pool (cmd/atlas/root.go)
\* ------------------------------------------------------------------------

\* The goroutines that run task bodies: runtime.concurrency workers.
Printers == 1..printer.n

\* Mutant: outMu.Lock() that never waits.
MuFree_always(mu) == TRUE

\* outMu.Lock() returns when no goroutine holds the mutex.
MuFree(mu) == mu = 0

\* The command starts its pool; no document has been fetched or printed.
InitPrinter ==
    /\ PoolIdle
    /\ DoIdle
    /\ CacheIdle
    /\ \E n \in 1..MaxConc :
           aux = [AuxIdle EXCEPT !.printer =
                     [n |-> n, taken |-> 0, mu |-> 0, pc |-> [w \in 1..n |-> "idle"],
                      doc |-> [w \in 1..n |-> 0], stdout |-> <<>>]]

\* A worker takes the task of the next input and runs its body up to the
\* document it has built.
PrintTake(w) ==
    /\ printer.pc[w] = "idle"
    /\ printer.taken < MaxInputs
    /\ aux' = [aux EXCEPT !.printer.taken = @ + 1,
                          !.printer.doc[w] = printer.taken + 1,
                          !.printer.pc[w] = "body"]
    /\ UNCHANGED <<poolVars, doVars, cacheVars>>

\* The body returns an error before it has a document (parse or fetch failed).
PrintFail(w) ==
    /\ printer.pc[w] = "body"
    /\ aux' = [aux EXCEPT !.printer.pc[w] = "idle", !.printer.doc[w] = 0]
    /\ UNCHANGED <<poolVars, doVars, cacheVars>>

\* The body calls printDocument(doc), which calls outMu.Lock().
PrintCall(w) ==
    /\ printer.pc[w] = "body"
    /\ aux' = [aux EXCEPT !.printer.pc[w] = "lock"]
    /\ UNCHANGED <<poolVars, doVars, cacheVars>>

\* outMu.Lock() returns: the goroutine holds the mutex.
PrintLock(w) ==
    /\ printer.pc[w] = "lock"
    /\ MuFree(printer.mu)
    /\ aux' = [aux EXCEPT !.printer.mu = w, !.printer.pc[w] = "head"]
    /\ UNCHANGED <<poolVars, doVars, cacheVars>>

\* output.PrintFenced(doc) / output.PrintXMLish(doc): the document reaches the
\* standard output in two writes, its header and its body.
PrintWrite(w) ==
    /\ printer.pc[w] \in {"head", "rest"}
    /\ aux' = [aux EXCEPT
                  !.printer.stdout = Append(@, <<printer.doc[w], printer.pc[w]>>),
                  !.printer.pc[w] = IF printer.pc[w] = "head" THEN "rest" ELSE "unlock"]
    /\ UNCHANGED <<poolVars, doVars, cacheVars>>

\* defer outMu.Unlock(); printDocument and the body return.
PrintUnlock(w) ==
    /\ printer.pc[w] = "unlock"
    /\ aux' = [aux EXCEPT !.printer.mu = 0, !.printer.pc[w] = "idle",
                          !.printer.doc[w] = 0]
    /\ UNCHANGED <<poolVars, doVars, cacheVars>>

NextPrinter ==
    \/ \E w \in Printers : PrintTake(w)
    \/ \E w \in Printers : PrintFail(w)
    \/ \E w \in Printers : PrintCall(w)
    \/ \E w \in Printers : PrintLock(w)
    \/ \E w \in Printers : PrintWrite(w)
    \/ \E w \in Printers : PrintUnlock(w)

SpecPrinter == InitPrinter /\ [][NextPrinter]_vars

\* The goroutines between outMu.Lock() and outMu.Unlock().
InPrint == {w \in Printers : printer.pc[w] \in {"head", "rest", "unlock"}}

\* C39: printDocument calls made by concurrently running pool tasks are
\* mutually exclusive: at most one task is inside the document-writing
\* section at any time, and the two writes of a document are adjacent in the
\* standard output.
C39_PrintExclusive ==
    /\ Cardinality(InPrint) <= 1
    /\ \A w \in InPrint : printer.mu = w
    /\ \A k \in 1..Len(printer.stdout) :
          /\ printer.stdout[k][2] = "rest"
                => k > 1 /\ printer.stdout[k - 1] = <<printer.stdout[k][1], "head">>
          /\ (printer.stdout[k][2] = "head" /\ k < Len(printer.stdout))
                => printer.stdout[k + 1] = <<printer.stdout[k][1], "rest">>

\* One task has written the header of its document and another task waits in
\* outMu.Lock(), after an earlier document was written whole.
C39_Witness ==
    /\ Len(printer.stdout) = 3
    /\ \E w \in Printers : \E v \in Printers :
          /\ printer.pc[w] = "rest"
          /\ printer.pc[v] = "lock"
          /\ printer.stdout[3] = <<printer.doc[w], "head">>

====
